---- MODULE Spec2Model ----
(***************************************************************************)
(* Candidate discovery engine of the cold-email agent.  One machine per     *)
(* specification; the variables of the other machines stay idle.            *)
(*                                                                         *)
(*   SpecFTR        find_target_recommendations (src/src/email_agent.py)    *)
(*   SpecDedup      the dedup step of crawl_advisors                        *)
(*   SpecUrl        _validate_linkedin_url                                  *)
(*   SpecExtract    llm_extract (src/src/agents/advisor_crawler.py)         *)
(*   SpecCrawl      crawl_advisors                                          *)
(*   SpecEmail      EmailService (src/src/services/email_service.py)        *)
(*   SpecProfile    profile models (src/src/models/profile.py)              *)
(*   SpecNorm       _normalize_recommendations, strings as characters       *)
(*   SpecHtml       get_html                                                *)
(*   SpecSearch     WebScraper.search_person (src/src/web_scraper.py)       *)
(*   SpecQuery      _build_serpapi_search_query                             *)
(*   SpecQuestions  generate_next_question / generate_next_target_question  *)
(*   SpecCollector  PromptDataCollector                                     *)
(*                  (src/src/services/prompt_collector.py)                  *)
(*                                                                         *)
(* JSON values that the code reads from a model or an API are records      *)
(* [t, v]: t is the JSON/Python type, v the integer payload when there is  *)
(* one.                                                                    *)
(***************************************************************************)
EXTENDS Integers, Sequences, FiniteSets, TLC

\* ------------------------------------------------------------------ bounds
\* largest `count` argument tried (0..MaxCount)
MaxCount == 3
\* most valid LinkedIn hits in one keyed-search response
MaxSerp == 3
\* most items in one "recommendations" list returned by a model
MaxItems == 2
\* most records in one input list of the dedup step
MaxRecs == 3
\* longest generated profile slug handed to the URL validator
MaxSlug == 2
\* most pieces a page text handed to llm_extract is made of
MaxPieces == 2
\* most <a href> elements on a list page handed to crawl_advisors
MaxAnchors == 3
\* largest limit argument of crawl_advisors (0..MaxLimit)
MaxLimit == 2
\* most items in the list the cleaning model answers with
MaxClean == 2
\* most result blocks on one search page
MaxBlocks == 2
\* most entries of target_role_titles
MaxTitles == 2
\* longest history a questionnaire session starts from, and most calls in it
MaxHistory == 2
MaxTurns == 3
\* largest max_questions
MaxQuestions == 2
\* most sessions the prompt collector is asked to start
MaxSessions == 1
\* longest list handed to _normalize_recommendations on its own
MaxNorm == 2

\* get_html's default for its retries parameter
DefaultRetries == 3

\* ------------------------------------------------------------ JSON values
IntV(n) == [t |-> "int", v |-> n]
NoneV == [t |-> "none", v |-> 0]
AbsentV == [t |-> "absent", v |-> 0]
InfV == [t |-> "inf", v |-> 0]
JunkV == [t |-> "junk", v |-> 0]

Min(a, b) == IF a <= b THEN a ELSE b
Max(a, b) == IF a >= b THEN a ELSE b

\* Python's s[:c]: the first c elements, or all but the last -c when c < 0.
PySliceToOffByOne(s, c) ==
    SubSeq(s, 1, IF c >= 0 THEN Min(c + 1, Len(s)) ELSE Max(0, Len(s) + c + 1))

PySliceTo(s, c) ==
    SubSeq(s, 1, IF c >= 0 THEN Min(c, Len(s)) ELSE Max(0, Len(s) + c))

\* list.sort(key=lambda x: <match_score>, reverse=True) on integer scores:
\* stable, descending.
RECURSIVE InsertDesc(_, _)
InsertDesc(sorted, r) ==
    IF sorted = << >> THEN << r >>
    ELSE IF Head(sorted).match_score.v >= r.match_score.v
         THEN << Head(sorted) >> \o InsertDesc(Tail(sorted), r)
         ELSE << r >> \o sorted

RECURSIVE SortDescFrom(_, _)
SortDescFrom(acc, s) ==
    IF s = << >> THEN acc
    ELSE SortDescFrom(InsertDesc(acc, Head(s)), Tail(s))

SortDesc(s) == SortDescFrom(<< >>, s)

\* every sequence over S of length 0..n
SeqsUpTo(S, n) == UNION { [1..k -> S] : k \in 0..n }

Perms(s) ==
    { [i \in 1..Len(s) |-> s[p[i]]] :
        p \in { q \in [1..Len(s) -> 1..Len(s)] :
                  \A i, j \in 1..Len(s) : i # j => q[i] # q[j] } }

\* ------------------------------------------------------------------ state
VARIABLES
    pc,        \* find_target_recommendations: the strategy block about to run, or "done"
    count,     \* its `count` argument
    cfg,       \* environment keys and config.py flags seen by the call
    status,    \* per strategy: pending / skipped / failed / accepted
    serp,      \* what _search_linkedin_via_serpapi returned in this call
    found,     \* scored_results / recommendations as the latest block computed it
    result,    \* the returned list
    outcome,   \* running / returned / raised
    calls,     \* per strategy: the external calls it made ("search", "web", "model")
    d_pc,      \* dedup step: "input", "once" (applied), "twice" (applied to its output)
    d_in,      \* the `results` list handed to the dedup step
    d_out,     \* deduped
    d_again,   \* the dedup step applied to deduped
    u_pc,      \* _validate_linkedin_url: "call" / "done"
    u_url,     \* its url argument: [t |-> "str" or "none", s |-> the characters]
    u_out,     \* its return value, same shape
    x_pc,      \* llm_extract: "call" / "done"
    x_text,    \* profile_text, as characters
    x_name,    \* fallback_name
    x_resp,    \* what model.generate_content does: raises, or the text it returns
    x_out,     \* [kind |-> "record" or "raised", rec |-> the AdvisorProfile]
    c_pc,      \* crawl_advisors: "start", "loop", "dedup", "clean", "done"
    c_limit,   \* its limit argument (0 stands for None or 0: no cut)
    c_page,    \* the <a href> elements of the list page
    c_links,   \* links, as the loop iterates over them
    c_idx,     \* the link the loop is about to process
    c_failed,  \* per processed link: did the try body raise?
    c_results, \* results
    c_deduped, \* deduped
    c_out,     \* [kind |-> "running" / "returned" / "raised", recs |-> the returned list]
    c_log,     \* the detail-page fetches and the polite sleeps so far, in order
    c_resp,    \* what the cleaning model answered (kind "none" before it is asked)
    m_pc,      \* EmailService: "call" / "done"
    m_op,      \* the method called: "generate" / "regenerate"
    m_style,   \* its style argument ("none": regenerate without a style)
    m_llm,     \* the llm_service given to the constructor, or how the lazy load goes
    m_resp,    \* what llm.call does: raises, or the text it returns
    m_calls,   \* number of llm.call invocations
    m_out,     \* [kind |-> "result" / "raised", exc, subject, body, style]
    p_pc,      \* profile models: "start", "round" (round trip done), "partial" (from_dict done)
    p_cls,     \* the class: "ProfileBase" / "SenderProfile" / "ReceiverProfile"
    p_obj,     \* a profile p of that class: field name -> value
    p_missing, \* the keys taken out of p.to_dict() before from_dict
    p_back,    \* the profile from_dict returned
    n_pc,      \* _normalize_recommendations: "call" / "done"
    n_items,   \* its items argument
    n_lookup,  \* what SerpAPI answers while it runs
    n_out,     \* [kind |-> "returned" / "raised", recs |-> the normalised list]
    h_pc,      \* get_html: "loop" / "done"
    h_i,       \* the attempt index i of its loop
    h_log,     \* the requests made and the sleeps taken, in order
    h_out,     \* [kind |-> "running" / "returned", text |-> the returned string]
    w_pc,      \* search_person: the adapter block about to run, "return", "done"
    w_cfg,     \* GOOGLE_SEARCH_KEY / GOOGLE_CX set?
    w_max,     \* its max_results argument
    w_calls,   \* the adapters that sent a request, with what each returned
    w_results, \* results
    w_out,     \* [kind |-> "running" / "returned", results |-> the returned list]
    q_pc,      \* _build_serpapi_search_query: "call" / "done"
    q_prefs,   \* its preferences argument
    q_field,   \* its field argument, as characters
    q_purpose, \* its purpose argument, as characters
    q_out,     \* the query it returned
    s_pc,      \* questionnaire session: "call", "client", "done"
    s_fn,      \* the function the session calls
    s_max,     \* max_questions (0: no cap)
    s_history, \* history, as the client holds it
    s_result,  \* what the latest call returned or raised
    s_calls,   \* calls made in this session
    s_asked,   \* questions the session has put to the user
    k_enabled, \* PromptDataCollector: _enabled
    k_live,    \* the keys of _current_sessions
    k_records, \* the PromptRecord object made for each session id
    k_next,    \* the next uuid start_session draws
    k_lock,    \* the callers inside `with self._session_lock`
    k_thr,     \* per caller: the method it is in, where, and its session_id
    k_handed,  \* per session: the callers end_session returned its record to
    k_snap     \* per session: the record as it was when popped

ftrVars == << pc, count, cfg, status, serp, found, result, outcome, calls >>
dedupVars == << d_pc, d_in, d_out, d_again >>
urlVars == << u_pc, u_url, u_out >>
extractVars == << x_pc, x_text, x_name, x_resp, x_out >>
crawlVars ==
    << c_pc, c_limit, c_page, c_links, c_idx, c_failed, c_results, c_deduped, c_out, c_log, c_resp >>
emailVars == << m_pc, m_op, m_style, m_llm, m_resp, m_calls, m_out >>
profileVars == << p_pc, p_cls, p_obj, p_missing, p_back >>
normVars == << n_pc, n_items, n_lookup, n_out >>
\* the machines of the first seven specifications, and the later ones
oldVars == << ftrVars, dedupVars, urlVars, extractVars, crawlVars, emailVars, profileVars >>
htmlVars == << h_pc, h_i, h_log, h_out >>
searchVars == << w_pc, w_cfg, w_max, w_calls, w_results, w_out >>
queryVars == << q_pc, q_prefs, q_field, q_purpose, q_out >>
questionsVars == << s_pc, s_fn, s_max, s_history, s_result, s_calls, s_asked >>
collectorVars == << k_enabled, k_live, k_records, k_next, k_lock, k_thr, k_handed, k_snap >>
restVars == << normVars, htmlVars, searchVars, queryVars, questionsVars, collectorVars >>
vars == << oldVars, restVars >>
\* what the actions of one machine leave alone
nonFtrVars == << dedupVars, urlVars, extractVars, crawlVars, emailVars, profileVars, restVars >>
nonDedupVars == << ftrVars, urlVars, extractVars, crawlVars, emailVars, profileVars, restVars >>
nonUrlVars == << ftrVars, dedupVars, extractVars, crawlVars, emailVars, profileVars, restVars >>
nonExtractVars == << ftrVars, dedupVars, urlVars, crawlVars, emailVars, profileVars, restVars >>
nonCrawlVars == << ftrVars, dedupVars, urlVars, extractVars, emailVars, profileVars, restVars >>
nonEmailVars == << ftrVars, dedupVars, urlVars, extractVars, crawlVars, profileVars, restVars >>
nonProfileVars == << ftrVars, dedupVars, urlVars, extractVars, crawlVars, emailVars, restVars >>
nonNormVars == << oldVars, htmlVars, searchVars, queryVars, questionsVars, collectorVars >>
nonHtmlVars == << oldVars, normVars, searchVars, queryVars, questionsVars, collectorVars >>
nonSearchVars == << oldVars, normVars, htmlVars, queryVars, questionsVars, collectorVars >>
nonQueryVars == << oldVars, normVars, htmlVars, searchVars, questionsVars, collectorVars >>
nonQuestionsVars == << oldVars, normVars, htmlVars, searchVars, queryVars, collectorVars >>
nonCollectorVars == << oldVars, normVars, htmlVars, searchVars, queryVars, questionsVars >>

\* ------------------------------------------- find_target_recommendations
Strategies ==
    << "serpapi", "gemini_search", "openai_web", "openai_scrape", "gemini_scrape", "gemini_text" >>

StrategySet == { Strategies[i] : i \in 1..Len(Strategies) }

Counts == 0..MaxCount

\* OPENAI_API_KEY is read by the two OpenAI strategies only: it varies where
\* USE_OPENAI_RECOMMENDATIONS lets them run.
Configs ==
    { c \in [ serpapi_key : BOOLEAN, gemini_key : BOOLEAN, openai_key : BOOLEAN,
              USE_GEMINI_SEARCH : BOOLEAN, USE_OPENAI_WEB_SEARCH : BOOLEAN,
              USE_OPENAI_RECOMMENDATIONS : BOOLEAN ] :
        c.openai_key => c.USE_OPENAI_RECOMMENDATIONS }

\* the external calls block s has made
Called(s, made) == calls' = [ calls EXCEPT ![s] = made ]

ModelCall(key) == IF key THEN { "model" } ELSE { }

\* The i-th organic result that passes the LinkedIn filters of the keyed search.
SerpRecord(i) ==
    [ name |-> << "Li A", "Li B", "Li C", "Li D", "Li E", "Li F" >>[i],
      match_score |-> IntV(75),
      sources |-> << << "in/li-a", "in/li-b", "in/li-c", "in/li-d", "in/li-e", "in/li-f" >>[i] >>,
      uncertainty |-> "low",
      via |-> "serpapi" ]

\* _search_linkedin_via_serpapi with `avail` organic results that pass the
\* filters: the loop appends, then stops once len(results) >= count.  A missing
\* key, a transport error and a malformed response all return [] (avail = 0).
_search_linkedin_via_serpapi(avail, c) ==
    LET n == IF avail = 0 THEN 0 ELSE IF c <= 1 THEN 1 ELSE Min(avail, c)
    IN  [ i \in 1..n |-> SerpRecord(i) ]

\* The acceptance test of the keyed search: `serpapi_results and len(...) >= 3`.
SerpapiAcceptsTwo(res) == Len(res) >= 2

SerpapiAccepts(res) == Len(res) >= 3

\* One entry of the "scored_candidates" list of the scoring model: a dict
\* without match_score, a dict with match_score 150, a dict with match_score
\* null, or something that is not a dict.
AiEntries == { AbsentV, IntV(150), NoneV, JunkV }

\* "fail": the call raised, or its text is not a JSON object.
AiOutcomes(n) ==
    { [ kind |-> "fail", scored |-> << >> ] } \cup
    { [ kind |-> "scored", scored |-> sl ] : sl \in SeqsUpTo(AiEntries, n) }

FirstJunk(sl) ==
    IF \E i \in 1..Len(sl) : sl[i].t = "junk"
    THEN CHOOSE i \in 1..Len(sl) : sl[i].t = "junk" /\ \A j \in 1..(i - 1) : sl[j].t # "junk"
    ELSE 0

\* The lists _ai_score_and_analyze_candidates can return.  scored.get(
\* "match_score", 75) is stored as it comes.  A non-dict entry raises in the
\* merge loop and the candidates merged so far are returned unsorted.  sort()
\* raises TypeError when a score is None; the list is then left in an
\* unspecified order.
_ai_score_and_analyze_candidates(candidates, ai) ==
    IF ai.kind = "fail" THEN { candidates }
    ELSE
      LET sl == ai.scored
          j == FirstJunk(sl)
          merged ==
            [ i \in 1..Len(candidates) |->
                IF i <= Len(sl) /\ (j = 0 \/ i < j)
                THEN [ candidates[i] EXCEPT
                         !.match_score = IF sl[i].t = "absent" THEN IntV(75) ELSE sl[i] ]
                ELSE candidates[i] ]
      IN  IF j # 0 /\ j <= Len(candidates) THEN { merged }
          ELSE IF \A i \in 1..Len(merged) : merged[i].match_score.t = "int"
               THEN { SortDesc(merged) }
               ELSE Perms(merged)

\* One item of a model's "recommendations" list: something that is skipped
\* (not a dict, or a dict without a name), a named dict whose match_score is
\* Infinity, or a named dict with or without a score, sources, uncertainty.
RawScores == { AbsentV, IntV(150) }

RawItems ==
    { [ isdict |-> FALSE, name |-> "", match_score |-> AbsentV, sources |-> << >>,
        uncertainty |-> "" ],
      [ isdict |-> TRUE, name |-> "Ann", match_score |-> InfV, sources |-> << >>,
        uncertainty |-> "" ] } \cup
    { it \in [ isdict : { TRUE }, name : { "Ann" }, match_score : RawScores,
                sources : { << >>, << "https://news/ann" >> }, uncertainty : { "", "high" } ] :
        it.sources = << >> \/ it.uncertainty = "" }

\* What a model call yields: it raises (transport error, rate limit, missing
\* key, empty response); its text is not JSON; it is JSON but no
\* object; or it is an object whose "recommendations" is the list `items` (an
\* absent or non-list value normalises like the empty list).
Contents ==
    { [ kind |-> k, items |-> << >> ] : k \in { "raise", "nonjson", "nonobject" } } \cup
    { [ kind |-> "recs", items |-> xs ] : xs \in SeqsUpTo(RawItems, MaxItems) }

\* _safe_int: int(value), or default on TypeError/ValueError.  int(inf) raises
\* OverflowError, which is not caught: see NormalizeRaises.
_safe_int(value, default) ==
    IF value.t = "int" THEN value.v ELSE default

Kept(item) == item.isdict /\ item.name # ""

NormalizeRaises(items) ==
    \E i \in 1..Len(items) : Kept(items[i]) /\ items[i].match_score.t = "inf"

\* The uncertainty a normalised record gets: the model's, or "medium".
UncertaintyOf(u, sources) == IF u # "" THEN u ELSE "medium"

NormalizeItem(item, via) ==
    LET raw == IF item.match_score.t = "absent" THEN IntV(0) ELSE item.match_score
        clamped == Max(0, Min(_safe_int(raw, 0), 100))
        sources == SelectSeq(item.sources, LAMBDA u : u # "")
    IN  [ name |-> item.name,
          match_score |-> IntV(IF clamped = 0 THEN 70 ELSE clamped),
          sources |-> sources,
          uncertainty |-> UncertaintyOf(item.uncertainty, sources),
          via |-> via ]

RECURSIVE _normalize_recommendations(_, _)
_normalize_recommendations(items, via) ==
    IF items = << >> THEN << >>
    ELSE IF Kept(Head(items))
         THEN << NormalizeItem(Head(items), via) >> \o _normalize_recommendations(Tail(items), via)
         ELSE _normalize_recommendations(Tail(items), via)

\* json.loads(content).get("recommendations", []) -> normalise -> sort.
Recommendations(c, via) == SortDesc(_normalize_recommendations(c.items, via))

\* Does the block raise before its `if recommendations:` test?
BlockRaises(c) == c.kind # "recs" \/ NormalizeRaises(c.items)

\* `if recommendations:` - the acceptance test of the four model strategies.
AcceptsWithSource(recs) == recs # << >> /\ \E i \in 1..Len(recs) : recs[i].sources # << >>

Accepts(recs) == recs # << >>

Placeholder ==
    [ name |-> "Contact in field", match_score |-> IntV(70), sources |-> << >>,
      uncertainty |-> "high: no sources available", via |-> "fallback" ]

\* the block that follows block s in the function body
NextOfScrapeFirst(s) ==
    CASE s = "serpapi" -> "gemini_scrape"
      [] s = "gemini_scrape" -> "gemini_search"
      [] s = "gemini_search" -> "openai_web"
      [] s = "openai_web" -> "openai_scrape"
      [] s = "openai_scrape" -> "gemini_text"
      [] OTHER -> "done"

NextOf(s) ==
    CASE s = "serpapi" -> "gemini_search"
      [] s = "gemini_search" -> "openai_web"
      [] s = "openai_web" -> "openai_scrape"
      [] s = "openai_scrape" -> "gemini_scrape"
      [] s = "gemini_scrape" -> "gemini_text"
      [] OTHER -> "done"

\* Leave block s without returning; recs is the list the block computed, if any.
Advance(s, st, recs) ==
    /\ pc' = NextOf(s)
    /\ status' = [ status EXCEPT ![s] = st ]
    /\ found' = recs
    /\ UNCHANGED << count, cfg, result, outcome >>

Return(s, recs) ==
    /\ pc' = "done"
    /\ status' = [ status EXCEPT ![s] = "accepted" ]
    /\ found' = recs
    /\ result' = PySliceTo(recs, count)
    /\ outcome' = "returned"
    /\ UNCHANGED << count, cfg >>

\* A model strategy inside try/except Exception, given the model's answer.
ModelBlock(s, c) ==
    IF BlockRaises(c) THEN Advance(s, "failed", << >>)
    ELSE IF Accepts(Recommendations(c, s)) THEN Return(s, Recommendations(c, s))
    ELSE Advance(s, "failed", Recommendations(c, s))

\* lines 1842-1882
TrySerpapi ==
    /\ pc = "serpapi"
    /\ UNCHANGED nonFtrVars
    /\ IF ~cfg.serpapi_key
       THEN Advance("serpapi", "skipped", << >>) /\ UNCHANGED serp /\ Called("serpapi", { })
       ELSE \E avail \in 0..MaxSerp :
              LET res == _search_linkedin_via_serpapi(avail, count)
              IN  /\ serp' = res
                  /\ IF SerpapiAccepts(res)
                     THEN \/ \E ai \in AiOutcomes(Len(res)) :
                               /\ cfg.gemini_key \/ ai.kind = "fail"
                               /\ \E scored \in _ai_score_and_analyze_candidates(res, ai) :
                                    Return("serpapi", scored)
                               /\ Called("serpapi", { "search" } \cup ModelCall(cfg.gemini_key))
                          \* building the scoring prompt (malformed sender_profile)
                          \* or recording the result raises: caught by the
                          \* block's except, the scored list is dropped
                          \/ /\ Advance("serpapi", "failed", << >>)
                             /\ Called("serpapi", { "search" })
                     ELSE Advance("serpapi", "failed", << >>) /\ Called("serpapi", { "search" })

\* lines 1888-1941
TryGeminiSearch ==
    /\ pc = "gemini_search"
    /\ UNCHANGED << serp, nonFtrVars >>
    /\ IF ~cfg.USE_GEMINI_SEARCH
       THEN Advance("gemini_search", "skipped", << >>) /\ Called("gemini_search", { })
       ELSE /\ \E c \in Contents :
                 /\ cfg.gemini_key \/ c.kind = "raise"
                 /\ ModelBlock("gemini_search", c)
            /\ Called("gemini_search", ModelCall(cfg.gemini_key))

\* lines 1944-1975
TryOpenAIWebSearch ==
    /\ pc = "openai_web"
    /\ UNCHANGED << serp, nonFtrVars >>
    /\ IF ~(cfg.USE_OPENAI_WEB_SEARCH /\ cfg.USE_OPENAI_RECOMMENDATIONS)
       THEN Advance("openai_web", "skipped", << >>) /\ Called("openai_web", { })
       ELSE /\ \E c \in Contents :
                 /\ cfg.openai_key \/ c.kind = "raise"
                 /\ ModelBlock("openai_web", c)
            /\ Called("openai_web", ModelCall(cfg.openai_key))

\* lines 1978-2001; the scrape may raise before the model is called
TryOpenAIScrape ==
    /\ pc = "openai_scrape"
    /\ UNCHANGED << serp, nonFtrVars >>
    /\ IF ~cfg.USE_OPENAI_RECOMMENDATIONS
       THEN Advance("openai_scrape", "skipped", << >>) /\ Called("openai_scrape", { })
       ELSE \/ /\ Advance("openai_scrape", "failed", << >>)
               /\ Called("openai_scrape", { "web" })
            \/ /\ \E c \in Contents :
                    /\ cfg.openai_key \/ c.kind = "raise"
                    /\ ModelBlock("openai_scrape", c)
               /\ Called("openai_scrape", { "web" } \cup ModelCall(cfg.openai_key))

\* lines 2004-2037; web: the scrape raised (timeout) / found nothing / found text
TryGeminiScrape ==
    /\ pc = "gemini_scrape"
    /\ UNCHANGED << serp, nonFtrVars >>
    /\ \E web \in { "raise", "nothing", "text" } :
         CASE web = "raise" ->
                Advance("gemini_scrape", "failed", << >>) /\ Called("gemini_scrape", { "web" })
           [] web = "nothing" ->
                Advance("gemini_scrape", "failed", << >>) /\ Called("gemini_scrape", { "web" })
           [] OTHER ->
                /\ \E c \in Contents :
                     /\ cfg.gemini_key \/ c.kind = "raise"
                     /\ ModelBlock("gemini_scrape", c)
                /\ Called("gemini_scrape", { "web" } \cup ModelCall(cfg.gemini_key))

\* lines 2040-2082: the model call is outside any try; only JSONDecodeError is
\* caught around the parse; the placeholder is the last statement.
TryGeminiText ==
    /\ pc = "gemini_text"
    /\ UNCHANGED << serp, nonFtrVars >>
    /\ Called("gemini_text", ModelCall(cfg.gemini_key))
    /\ \E c \in Contents :
         /\ cfg.gemini_key \/ c.kind = "raise"
         /\ IF c.kind \in { "raise", "nonobject" } \/ (c.kind = "recs" /\ NormalizeRaises(c.items))
            THEN /\ pc' = "done"
                 /\ status' = [ status EXCEPT !["gemini_text"] = "failed" ]
                 /\ outcome' = "raised"
                 /\ found' = << >>
                 /\ UNCHANGED << count, cfg, result >>
            ELSE IF c.kind = "recs" /\ Accepts(Recommendations(c, "gemini_text"))
                 THEN Return("gemini_text", Recommendations(c, "gemini_text"))
                 ELSE /\ pc' = "done"
                      /\ status' = [ status EXCEPT !["gemini_text"] = "failed" ]
                      /\ found' = IF c.kind = "recs" THEN Recommendations(c, "gemini_text")
                                   ELSE << >>
                      /\ result' = << Placeholder >>
                      /\ outcome' = "returned"
                      /\ UNCHANGED << count, cfg >>

\* ------------------------------------------- crawl_advisors: dedup step
\* AdvisorProfile.to_dict() records.  Of the nine fields _score counts, email
\* (a scalar) and education (a list) vary here; the other seven are empty.
\* The name varies where it is part of the key: in records without source_url.
AdvisorRecords ==
    { r \in [ name : { "J Doe", "Jane Doe" },
              email : { "", "jdoe@u.edu" },
              source_url : { "", "https://u.edu/people/jdoe" },
              education : { << >>, << " " >>, << "PhD MIT" >> } ] :
        r.source_url = "" \/ r.name = "J Doe" }

Blank(str) == str \in { "", " " }

\* _score: one point per scalar field with non-blank text and per list field
\* with at least one non-blank element.
_score(r) ==
    (IF ~Blank(r.email) THEN 1 ELSE 0)
    + (IF \E i \in 1..Len(r.education) : ~Blank(r.education[i]) THEN 1 ELSE 0)

\* key = r.get("source_url") or (r.get("name"), r.get("email"))
KeyOf(r) ==
    IF r.source_url # ""
    THEN [ kind |-> "url", a |-> r.source_url, b |-> "" ]
    ELSE [ kind |-> "name_email", a |-> r.name, b |-> r.email ]

\* `_score(r) > _score(deduped[idx])`
ReplacesOnTie(r, kept) == _score(r) >= _score(kept)

Replaces(r, kept) == _score(r) > _score(kept)

\* The loop over results; keys[i] is the key registered in key_to_index for
\* deduped[i].
RECURSIVE DedupFrom(_, _, _)
DedupFrom(deduped, keys, rest) ==
    IF rest = << >> THEN deduped
    ELSE
      LET r == Head(rest)
          key == KeyOf(r)
      IN  IF \E i \in 1..Len(keys) : keys[i] = key
          THEN LET idx == CHOOSE i \in 1..Len(keys) : keys[i] = key
               IN  IF Replaces(r, deduped[idx])
                   THEN DedupFrom([ deduped EXCEPT ![idx] = r ], keys, Tail(rest))
                   ELSE DedupFrom(deduped, keys, Tail(rest))
          ELSE DedupFrom(Append(deduped, r), Append(keys, key), Tail(rest))

DedupSkippingFirst(results) ==
    IF results = << >> THEN << >> ELSE DedupFrom(<< >>, << >>, Tail(results))

\* lines 455-465
Dedup(results) == DedupFrom(<< >>, << >>, results)

\* ------------------------------------------------ _validate_linkedin_url
\* Strings the validator takes apart are sequences of one-character strings.
StartsWith(str, prefix) ==
    Len(str) >= Len(prefix) /\ SubSeq(str, 1, Len(prefix)) = prefix

\* str.find(sub) + 1: the position of the first occurrence, 0 when there is none
Find(str, sub) ==
    LET hits == { i \in 1..(Len(str) - Len(sub) + 1) : SubSeq(str, i, i + Len(sub) - 1) = sub }
    IN  IF hits = { } THEN 0 ELSE CHOOSE i \in hits : \A j \in hits : i <= j

\* `sub in str`
Contains(str, sub) == Find(str, sub) # 0

\* str.split(sep)
RECURSIVE Split(_, _)
Split(str, sep) ==
    LET i == Find(str, sep)
    IN  IF i = 0 THEN << str >>
        ELSE << SubSeq(str, 1, i - 1) >> \o Split(SubSeq(str, i + Len(sep), Len(str)), sep)

\* str.rstrip(chars), str.lstrip(chars)
RECURSIVE RStrip(_, _)
RStrip(str, chars) ==
    IF str # << >> /\ str[Len(str)] \in chars
    THEN RStrip(SubSeq(str, 1, Len(str) - 1), chars)
    ELSE str

RECURSIVE LStrip(_, _)
LStrip(str, chars) ==
    IF str # << >> /\ Head(str) \in chars THEN LStrip(Tail(str), chars) ELSE str

\* str.strip()
Strip(str) == LStrip(RStrip(str, { " " }), { " " })

\* str.lower() and str.isupper() on ASCII letters
UpperLetters ==
    { "A", "B", "C", "D", "E", "F", "G", "H", "I", "J", "K", "L", "M", "N", "O", "P", "Q", "R",
      "S", "T", "U", "V", "W", "X", "Y", "Z" }

LowerLetters ==
    [ A |-> "a", B |-> "b", C |-> "c", D |-> "d", E |-> "e", F |-> "f", G |-> "g", H |-> "h",
      I |-> "i", J |-> "j", K |-> "k", L |-> "l", M |-> "m", N |-> "n", O |-> "o", P |-> "p",
      Q |-> "q", R |-> "r", S |-> "s", T |-> "t", U |-> "u", V |-> "v", W |-> "w", X |-> "x",
      Y |-> "y", Z |-> "z" ]

IsUpper(ch) == ch \in UpperLetters

LowerChar(ch) == IF IsUpper(ch) THEN LowerLetters[ch] ELSE ch

Lower(str) == [ i \in 1..Len(str) |-> LowerChar(str[i]) ]

valid_prefixes ==
    { << "h", "t", "t", "p", "s", ":", "/", "/", "w", "w", "w", ".", "l", "i", "n", "k", "e",
         "d", "i", "n", ".", "c", "o", "m", "/", "i", "n", "/" >>,
      << "h", "t", "t", "p", "s", ":", "/", "/", "l", "i", "n", "k", "e", "d", "i", "n", ".",
         "c", "o", "m", "/", "i", "n", "/" >>,
      << "h", "t", "t", "p", "s", ":", "/", "/", "w", "w", "w", ".", "l", "i", "n", "k", "e",
         "d", "i", "n", ".", "c", "o", "m", "/", "c", "o", "m", "p", "a", "n", "y", "/" >>,
      << "h", "t", "t", "p", "s", ":", "/", "/", "l", "i", "n", "k", "e", "d", "i", "n", ".",
         "c", "o", "m", "/", "c", "o", "m", "p", "a", "n", "y", "/" >> }

fake_patterns ==
    { << "e", "x", "a", "m", "p", "l", "e" >>, << "s", "a", "m", "p", "l", "e" >>,
      << "t", "e", "s", "t" >>, << "f", "a", "k", "e" >>,
      << "p", "l", "a", "c", "e", "h", "o", "l", "d", "e", "r" >>,
      << "x", "x", "x" >>, << "y", "y", "y" >>,
      << "a", "b", "c", "1", "2", "3" >>, << "u", "s", "e", "r", "1", "2", "3" >> }

InSep == << "/", "i", "n", "/" >>
CompanySep == << "/", "c", "o", "m", "p", "a", "n", "y", "/" >>

StrV(str) == [ t |-> "str", s |-> str ]
NoneStr == [ t |-> "none", s |-> << >> ]

\* `not profile_slug or len(profile_slug) < 2`
SlugTooShortThree(profile_slug) == Len(profile_slug) < 3

SlugTooShort(profile_slug) == Len(profile_slug) < 2

\* parts[1].split('/')[0].split('?')[0]
SlugOf(part) == Split(Split(part, << "/" >>)[1], << "?" >>)[1]

_validate_linkedin_url(arg) ==
    IF arg.t # "str" \/ arg.s = << >> THEN NoneStr
    ELSE
      LET url == Strip(arg.s)
          sep == IF Contains(url, InSep) THEN InSep ELSE CompanySep
          parts == Split(RStrip(url, { "/" }), sep)
      IN  IF ~\E prefix \in valid_prefixes : StartsWith(url, prefix) THEN NoneStr
          ELSE IF ~Contains(url, InSep) /\ ~Contains(url, CompanySep) THEN NoneStr
          ELSE IF Len(parts) # 2 THEN NoneStr
          ELSE IF SlugTooShort(SlugOf(parts[2])) THEN NoneStr
          ELSE IF \E pattern \in fake_patterns : Contains(Lower(SlugOf(parts[2])), pattern)
               THEN NoneStr
          ELSE StrV(url)

\* The arguments tried: None, or a prefix, a slug and a tail, possibly with
\* blanks around.
UrlPrefixes ==
    valid_prefixes \cup
    { << "h", "t", "t", "p", ":", "/", "/", "w", "w", "w", ".", "l", "i", "n", "k", "e", "d",
         "i", "n", ".", "c", "o", "m", "/", "i", "n", "/" >>,
      << >> }

UrlSlugs ==
    { << "t", "e", "s", "t", "1", "2", "3" >>,
      << "a", "b" >>,
      << "j", "a", "n", "e", "-", "d", "o", "e", "-", "8", "7", "2", "3", "4" >>,
      << "T", "e", "s", "t", "-", "U", "s", "e", "r" >>,
      << "a", "c", "m", "e" >> } \cup
    SeqsUpTo({ "a", "X", "?" }, MaxSlug)

UrlTails ==
    { << >>, << "/" >>, << "/", "/" >>, << "?", "x" >>, << "/", "d", "e", "t", "a", "i", "l", "s" >>,
      << "/", "i", "n", "/", "b", "o", "b" >>, << " " >> }

UrlArgs ==
    { NoneStr } \cup
    { StrV(lead \o prefix \o slug \o tail) :
        lead \in { << >>, << " " >> }, prefix \in UrlPrefixes, slug \in UrlSlugs, tail \in UrlTails }

\* ----------------------------------------------------------- llm_extract
\* A JSON value / a dataclass field: t is the type, s a string payload, l a
\* list payload (the items of a list, the keys of a dict, or the characters of
\* a text matched or sliced out of profile_text).
JStr(str) == [ t |-> "str", s |-> str, l |-> << >> ]
JList(items) == [ t |-> "list", s |-> "", l |-> items ]
JDict(keys) == [ t |-> "dict", s |-> "", l |-> keys ]
JChars(chars) == [ t |-> "chars", s |-> "", l |-> chars ]
JInt == [ t |-> "int", s |-> "", l |-> << >> ]
JNull == [ t |-> "null", s |-> "", l |-> << >> ]
JAbsent == [ t |-> "absent", s |-> "", l |-> << >> ]

Letters ==
    { "a", "b", "c", "d", "e", "f", "g", "h", "i", "j", "k", "l", "m",
      "n", "o", "p", "q", "r", "s", "t", "u", "v", "w", "x", "y", "z",
      "A", "B", "C", "D", "E", "F", "G", "H", "I", "J", "K", "L", "M",
      "N", "O", "P", "Q", "R", "S", "T", "U", "V", "W", "X", "Y", "Z" }

Digits == { "0", "1", "2", "3", "4", "5", "6", "7", "8", "9" }

\* [A-Za-z0-9._%+-] and [A-Za-z0-9.-]
LocalChars == Letters \cup Digits \cup { ".", "_", "%", "+", "-" }
DomainChars == Letters \cup Digits \cup { ".", "-" }

\* the first position >= i whose character is not in `class`, Len + 1 if none
RunEnd(text, i, class) ==
    LET stops == { k \in i..Len(text) : text[k] \notin class }
    IN  IF stops = { } THEN Len(text) + 1 ELSE CHOOSE k \in stops : \A j \in stops : k <= j

\* The pattern r"[A-Za-z0-9._%+-]+@[A-Za-z0-9.-]+\\.[A-Za-z]{2,}" matched at
\* position i: in a raw string \\ is an escaped backslash and the dot after it
\* matches any character but a newline.  0, or the last position of the match.
EmailMatchEnd(text, i) ==
    LET at == RunEnd(text, i, LocalChars)
        bs == RunEnd(text, at + 1, DomainChars)
        stop == RunEnd(text, bs + 2, Letters)
    IN  IF /\ at > i /\ at <= Len(text) /\ text[at] = "@"
           /\ bs > at + 1 /\ bs <= Len(text) /\ text[bs] = "\\"
           /\ bs + 1 <= Len(text) /\ text[bs + 1] # "\n"
           /\ stop - (bs + 2) >= 2
        THEN stop - 1
        ELSE 0

\* re.search(...).group(0), or "" without a match
EmailSearch(text) ==
    LET starts == { i \in 1..Len(text) : EmailMatchEnd(text, i) # 0 }
    IN  IF starts = { } THEN << >>
        ELSE LET i == CHOOSE k \in starts : \A j \in starts : k <= j
             IN  SubSeq(text, i, EmailMatchEnd(text, i))

SourceUrl == "https://u.edu/people/jsmith"

_heuristic_profile(profile_text, fallback_name) ==
    [ name |-> JStr(fallback_name),
      email |-> JChars(EmailSearch(profile_text)),
      research |-> JChars(PySliceTo(profile_text, 300)),
      homepage_url |-> SourceUrl,
      source_url |-> SourceUrl,
      education |-> JList(<< >>) ]

\* `not obj.get("name")`
Falsy(v) ==
    \/ v.t \in { "absent", "null" }
    \/ v.t = "str" /\ v.s = ""
    \/ v.t \in { "list", "dict" } /\ v.l = << >>

\* the loop over the list fields, after obj.setdefault(key, "")
NormalizeListField(v) ==
    CASE v.t = "absent" -> JList(<< >>)
      [] v.t = "str" -> IF Blank(v.s) THEN JList(<< >>) ELSE JList(<< v.s >>)
      [] v.t = "list" -> v
      [] v.t = "dict" -> JList(v.l)
      [] OTHER -> JList(<< >>)

\* AdvisorProfile(**obj) raises TypeError for a key that is no field of the
\* dataclass.
InitAccepts(obj) == ~obj.extra

\* The part of llm_extract after json.loads for a dict obj.
ProfileFromObj(obj, fallback_name) ==
    [ name |-> IF Falsy(obj.name) THEN JStr(fallback_name) ELSE obj.name,
      email |-> IF obj.email.t = "absent" THEN JStr("") ELSE obj.email,
      research |-> JStr(""),
      homepage_url |-> "",
      source_url |-> SourceUrl,
      education |-> NormalizeListField(obj.education) ]

EmptyObj == [ name |-> JAbsent, email |-> JAbsent, education |-> JAbsent, extra |-> FALSE ]

\* The JSON objects a model may answer with: keys missing, values of the wrong
\* type, a key that is no field ("phone").
ModelObjs ==
    [ name : { JAbsent, JStr(""), JStr("Jane Doe"), JInt },
      email : { JAbsent, JStr("jane@u.edu") },
      education : { JAbsent, JStr(" "), JStr("PhD MIT"), JList(<< "PhD MIT", "BS UCLA" >>),
                    JInt, JNull, JDict(<< "degree" >>) },
      extra : BOOLEAN ]

\* "raise": generate_content raised.  Otherwise the text returned: not JSON;
\* a JSON number, string or null; a list that is empty or starts with a
\* non-dict; a list that starts with the dict obj; the dict obj.
ModelResponses ==
    { [ kind |-> k, obj |-> EmptyObj ] : k \in { "raise", "nonjson", "scalar", "list_other" } } \cup
    { [ kind |-> k, obj |-> o ] : k \in { "list_dict", "object" }, o \in ModelObjs }

Raised == [ kind |-> "raised", rec |-> _heuristic_profile(<< >>, "") ]

llm_extract(profile_text, fallback_name, resp) ==
    IF resp.kind = "raise" THEN Raised
    ELSE IF resp.kind \in { "nonjson", "scalar" }
         THEN [ kind |-> "record", rec |-> _heuristic_profile(profile_text, fallback_name) ]
    ELSE LET obj == IF resp.kind = "list_other" THEN EmptyObj ELSE resp.obj
         IN  IF InitAccepts(obj)
             THEN [ kind |-> "record", rec |-> ProfileFromObj(obj, fallback_name) ]
             ELSE Raised

\* Page texts: up to MaxPieces of these pieces, one after the other.
TextPieces ==
    { << "J", "o", "h", "n", " ", "S", "m", "i", "t", "h", " " >>,
      << "j", "o", "h", "n", ".", "s", "m", "i", "t", "h", "@", "e", "x", "a", "m", "p", "l", "e", ".", "o", "r", "g" >>,
      << "a", "@", "b", "\\", ".", "c", "d" >>,
      << "x", "@", "y" >>,
      << " " >> }

RECURSIVE Concat(_)
Concat(pieces) == IF pieces = << >> THEN << >> ELSE Head(pieces) \o Concat(Tail(pieces))

PageTexts == { Concat(ps) : ps \in SeqsUpTo(TextPieces, MaxPieces) }

FallbackNames == { "John Smith", "" }

\* -------------------------------------------------------- crawl_advisors
\* An <a href> of the list page: its text, the path of its absolute URL and
\* its fragment.
Anchors ==
    { [ name |-> "Ann Lee", path |-> "/people/ann", frag |-> "" ],
      [ name |-> "Bo Chen", path |-> "/people/bo", frag |-> "" ],
      [ name |-> "Ann Lee (bio)", path |-> "/people/ann", frag |-> "#bio" ],
      [ name |-> "Faculty", path |-> "/people/", frag |-> "" ],
      [ name |-> "Campus news", path |-> "/news/today", frag |-> "" ] }

\* is_faculty_link: a positive hint in the path and no negative one
is_faculty_link(path) == path \in { "/people/ann", "/people/bo", "/people/" }

\* the link texts extract_detail_links skips: a skip token, or text containing
\* "people", "faculty" or "staff"
NavLabel(name) == name \in { "Faculty" }

\* keep the first (name, url) of every url
RECURSIVE UniqByUrl(_, _)
UniqByUrl(uniq, links) ==
    IF links = << >> THEN uniq
    ELSE IF \E i \in 1..Len(uniq) : uniq[i].url = Head(links).url
         THEN UniqByUrl(uniq, Tail(links))
         ELSE UniqByUrl(Append(uniq, Head(links)), Tail(links))

RECURSIVE DetailLinks(_)
DetailLinks(anchors) ==
    IF anchors = << >> THEN << >>
    ELSE LET a == Head(anchors)
         IN  IF is_faculty_link(a.path) /\ ~NavLabel(a.name)
             THEN << [ name |-> a.name, url |-> a.path ] >> \o DetailLinks(Tail(anchors))
             ELSE DetailLinks(Tail(anchors))

extract_detail_links(anchors) == UniqByUrl(<< >>, DetailLinks(anchors))

School == "MIT Media Lab"
ListUrl == "/people/"

\* lines 390-412: the links the loop iterates over
CrawlLinks(anchors, limit) ==
    LET dedup_links == UniqByUrl(<< >>, extract_detail_links(anchors))
        links == IF dedup_links = << >> THEN << [ name |-> School, url |-> ListUrl ] >>
                 ELSE dedup_links
    IN  IF limit # 0 THEN PySliceTo(links, limit) ELSE links

\* the record appended by the except branch of the loop
FailedRecordNoUrl(name, url) ==
    [ name |-> name, email |-> "", source_url |-> "", education |-> << >> ]

FailedRecord(name, url) ==
    [ name |-> name, email |-> "", source_url |-> url, education |-> << >> ]

\* What one pass through the try body does: the page fetch or llm_extract
\* raises, or llm_extract returns a record - the heuristic one or one built
\* from the model's object; its source_url is the link's url.
LinkOutcomes == { "raises", "fallback_name", "model_fields" }

\* the mutant of `obj["source_url"] = source_url`: the model's own claim stays
ExtractedRecordKeepingClaim(o, name, url) ==
    IF o = "fallback_name"
    THEN [ name |-> name, email |-> "", source_url |-> url, education |-> << >> ]
    ELSE [ name |-> "Jane Doe", email |-> "jdoe@u.edu", source_url |-> "/people/jdoe",
           education |-> << "PhD MIT" >> ]

ExtractedRecord(o, name, url) ==
    IF o = "fallback_name"
    THEN [ name |-> name, email |-> "", source_url |-> url, education |-> << >> ]
    ELSE [ name |-> "Jane Doe", email |-> "jdoe@u.edu", source_url |-> url,
           education |-> << "PhD MIT" >> ]

\* what one pass of the loop does besides building its record: it fetches the
\* detail page, and sleeps after the try/except whether the body raised or not
FetchEvent(url) == [ ev |-> "fetch", url |-> url ]
PoliteSleepEvent == [ ev |-> "sleep", url |-> "" ]

\* the mutant of the delay: taken at the end of the try body only
polite_sleep_on_success(failed) == IF failed THEN << >> ELSE << PoliteSleepEvent >>

polite_sleep(failed) == << PoliteSleepEvent >>

\* _is_person in clean_profiles_with_gemini, on the names that occur here: a
\* blank name and a name containing "faculty" or "lab" are no person's
_is_person(name) == name \notin { "", " ", "Faculty", "MIT Media Lab" }

\* An item of the list the cleaning model answers with: something that is no
\* dict, a person not among the input, or an echo of the first input record
\* (whose name may be no person's: the school, when the list page had no link).
CleanItems(profiles) ==
    { [ isdict |-> FALSE, rec |-> FailedRecord("", "") ],
      [ isdict |-> TRUE, rec |-> FailedRecord("Zed Young", "/people/zed") ] } \cup
    { [ isdict |-> TRUE, rec |-> profiles[i] ] : i \in 1..Min(1, Len(profiles)) }

\* The cleaning model raises, answers text that is not JSON, JSON that is
\* neither list nor dict, or a list of items (directly or under "profiles").
CleanResponses(profiles) ==
    { [ kind |-> k, items |-> << >> ] : k \in { "raise", "nonjson", "scalar" } } \cup
    { [ kind |-> "list", items |-> xs ] : xs \in SeqsUpTo(CleanItems(profiles), MaxClean) }

RECURSIVE CleanedItems(_)
CleanedItems(items) ==
    IF items = << >> THEN << >>
    ELSE IF Head(items).isdict /\ _is_person(Head(items).rec.name)
         THEN << Head(items).rec >> \o CleanedItems(Tail(items))
         ELSE CleanedItems(Tail(items))

\* the mutant of `return cleaned or profiles`: cleaned is returned even if empty
clean_profiles_returning_cleaned(profiles, resp) ==
    IF profiles = << >> THEN profiles
    ELSE IF resp.kind # "list" THEN profiles
    ELSE CleanedItems(resp.items)

clean_profiles_with_gemini(profiles, resp) ==
    IF profiles = << >> THEN profiles
    ELSE IF resp.kind # "list" THEN profiles
    ELSE IF CleanedItems(resp.items) = << >> THEN profiles
    ELSE CleanedItems(resp.items)

\* ----------------------------------------------------------- EmailService
EmailStyles == { "professional", "friendly", "concise", "detailed", "custom" }

\* What llm.call returns or does: it raises; or its text is not JSON, is the
\* JSON null, a list, a string or a number, or a JSON object with or without
\* "subject" and "body"; "nonstr": it returns None instead of text.
LlmResponses ==
    { [ kind |-> k, subject |-> JAbsent, body |-> JAbsent ] :
        k \in { "raise", "nonjson", "null", "list", "string", "number", "nonstr" } } \cup
    { [ kind |-> "object", subject |-> sb, body |-> bd ] :
        sb \in { JAbsent, JStr("Quick question") }, bd \in { JAbsent, JStr("Dear Dr. Lee") } }

NoResult(exc) ==
    [ kind |-> "raised", exc |-> exc, subject |-> JAbsent, body |-> JAbsent, style |-> "" ]

\* _parse_email_response: json.loads, then data.get on the result; only
\* json.JSONDecodeError is turned into EmailServiceError here.
_parse_email_response(response, style) ==
    CASE response.kind = "nonjson" -> NoResult("EmailServiceError")
      [] response.kind = "nonstr" -> NoResult("TypeError")
      [] response.kind \in { "null", "list", "string", "number" } -> NoResult("AttributeError")
      [] OTHER ->
           [ kind |-> "result", exc |-> "",
             subject |-> IF response.subject.t = "absent" THEN JStr("") ELSE response.subject,
             body |-> IF response.body.t = "absent" THEN JStr("") ELSE response.body,
             style |-> style ]

\* `except Exception as e: raise EmailServiceError(...) from e`
ReraiseUnlessParsed(exc) ==
    IF exc \in { "EmailServiceError", "LLMServiceError" } THEN "EmailServiceError" ELSE exc

Reraise(exc) == "EmailServiceError"

\* the try block of generate / regenerate: self.llm, llm.call, the parse
EmailTry(llm, response, style) ==
    IF llm = "lazy_fails" THEN NoResult(Reraise("LLMServiceError"))
    ELSE IF response.kind = "raise" THEN NoResult(Reraise("LLMServiceError"))
    ELSE LET parsed == _parse_email_response(response, style)
         IN  IF parsed.kind = "raised" THEN NoResult(Reraise(parsed.exc)) ELSE parsed

generate(llm, response, style) == EmailTry(llm, response, style)

\* result_style = style or EmailStyle.CUSTOM
regenerate(llm, response, style) ==
    EmailTry(llm, response, IF style = "none" THEN "custom" ELSE style)

\* -------------------------------------------------------- profile models
\* A profile object and the dict of to_dict are functions from the ten field
\* names to values; JAbsent marks a key the dict lacks and a field the class
\* does not have.
BaseFields == { "name", "raw_text", "education", "experiences", "skills", "projects" }

ProfileKeys == BaseFields \cup { "motivation", "ask", "context", "sources" }

ProfileClasses == { "ProfileBase", "SenderProfile", "ReceiverProfile" }

FieldsOf(cls) ==
    CASE cls = "SenderProfile" -> BaseFields \cup { "motivation", "ask" }
      [] cls = "ReceiverProfile" -> BaseFields \cup { "context", "sources" }
      [] OTHER -> BaseFields

\* the second argument of each data.get in from_dict
DefaultContextEmpty(key) ==
    CASE key = "name" -> JStr("Unknown")
      [] key \in { "raw_text", "motivation", "ask", "context" } -> JStr("")
      [] OTHER -> JList(<< >>)

Default(key) ==
    CASE key = "name" -> JStr("Unknown")
      [] key \in { "raw_text", "motivation", "ask" } -> JStr("")
      [] key = "context" -> JNull
      [] OTHER -> JList(<< >>)

to_dict(cls, p) ==
    [ key \in ProfileKeys |-> IF key \in FieldsOf(cls) THEN p[key] ELSE JAbsent ]

from_dict(cls, data) ==
    [ key \in ProfileKeys |->
        IF key \notin FieldsOf(cls) THEN JAbsent
        ELSE IF data[key].t = "absent" THEN Default(key)
        ELSE data[key] ]

\* data without the keys in `missing`
WithoutKeys(data, missing) ==
    [ key \in ProfileKeys |-> IF key \in missing THEN JAbsent ELSE data[key] ]

\* the values a field is given here
FieldValues(key) ==
    CASE key = "name" -> { JStr("Ann Lee"), JStr("") }
      [] key = "raw_text" -> { JStr("CV text") }
      [] key = "education" -> { JList(<< >>), JList(<< "MIT" >>) }
      [] key \in { "experiences", "skills", "projects" } -> { JList(<< "Robotics" >>) }
      [] key \in { "motivation", "ask" } -> { JStr(""), JStr("a 20-min chat") }
      [] key = "context" -> { JNull, JStr("met at ICML") }
      [] OTHER -> { JList(<< >>), JList(<< "https://u.edu/ann" >>) }

Profiles(cls) ==
    { [ key \in ProfileKeys |-> IF key \in FieldsOf(cls) THEN r[key] ELSE JAbsent ] :
        r \in [ name : FieldValues("name"), raw_text : FieldValues("raw_text"),
                education : FieldValues("education"), experiences : FieldValues("experiences"),
                skills : FieldValues("skills"), projects : FieldValues("projects"),
                motivation : FieldValues("motivation"), ask : FieldValues("ask"),
                context : FieldValues("context"), sources : FieldValues("sources") ] }

\* ------------------------------------- _normalize_recommendations, in full
\* The normaliser with its strings as characters: names, positions and URLs
\* are sequences of one-character strings, so that strip, split, `in` and
\* quote act as they do in the code.
NameTia == << "T", "i", "a" >>
PositionAtUx == << "C", "E", "O", " ", "a", "t", " ", "U", "X" >>
PositionCommaUx == << "C", "E", "O", ",", " ", "U", "X" >>

LinkedinIn == << "h", "t", "t", "p", "s", ":", "/", "/", "w", "w", "w", ".", "l", "i", "n", "k",
                 "e", "d", "i", "n", ".", "c", "o", "m", "/", "i", "n", "/" >>
SlugTia == << "t", "i", "a", "-", "9" >>
SlugTest == << "t", "e", "s", "t", "1" >>
NewsUrl == << "h", "t", "t", "p", "s", ":", "/", "/", "n", "e", "w", "s", "/", "t", "i", "a" >>

\* scores a model may put in match_score: absent, a non-numeric string,
\* Infinity, and integers below, inside and above [0,100]
NormScores == { AbsentV, JunkV, InfV, IntV(-5), IntV(0), IntV(50), IntV(150) }

\* linkedin_url values a model may give: none, a well-formed profile URL, a
\* fake-pattern one, one on a foreign host, one padded with blanks
NormUrls ==
    { << >>, LinkedinIn \o SlugTia, LinkedinIn \o SlugTest, NewsUrl \o << "/", "i", "n", "/", "x", "y" >>,
      << " " >> \o LinkedinIn \o SlugTia \o << "/", " " >> }

NormSources ==
    { << >>, << << " " >>, NewsUrl >>, << NewsUrl, LinkedinIn \o SlugTia >>,
      << LinkedinIn \o SlugTest >> }

NormItem(isdict, name, position, score, url, sources) ==
    [ isdict |-> isdict, name |-> name, position |-> position, match_score |-> score,
      linkedin_url |-> url, sources |-> sources ]

\* One element of the list handed to the normaliser: a non-dict, a dict with
\* a blank name, a named dict with each score, with each URL, with each
\* sources list.
NormItems ==
    { NormItem(FALSE, << >>, << >>, AbsentV, << >>, << >>),
      NormItem(TRUE, << " " >>, << >>, IntV(50), LinkedinIn \o SlugTia, << >>) } \cup
    { NormItem(TRUE, NameTia, << >>, sc, << >>, << >>) : sc \in NormScores } \cup
    { NormItem(TRUE, << " " >> \o NameTia, << >>, IntV(50), url, << >>) : url \in NormUrls } \cup
    { NormItem(TRUE, << " " >> \o NameTia, PositionAtUx, IntV(50), LinkedinIn \o SlugTest, << >>) } \cup
    { NormItem(TRUE, NameTia, << >>, IntV(50), << >>, srcs) : srcs \in NormSources } \cup
    { NormItem(TRUE, NameTia, PositionCommaUx, IntV(50), LinkedinIn \o SlugTest, << >>) }

\* urllib.parse.quote: letters, digits and "_.-~/" stay, a blank becomes %20
QuoteChar(ch) == IF ch = " " THEN << "%", "2", "0" >> ELSE << ch >>

RECURSIVE Quote(_)
Quote(str) == IF str = << >> THEN << >> ELSE QuoteChar(Head(str)) \o Quote(Tail(str))

SearchUrlPrefix ==
    << "h", "t", "t", "p", "s", ":", "/", "/", "w", "w", "w", ".", "l", "i", "n", "k", "e", "d",
       "i", "n", ".", "c", "o", "m", "/", "s", "e", "a", "r", "c", "h", "/", "r", "e", "s", "u",
       "l", "t", "s", "/", "p", "e", "o", "p", "l", "e", "/", "?", "k", "e", "y", "w", "o", "r",
       "d", "s", "=" >>

_generate_linkedin_search_url(name, company) ==
    SearchUrlPrefix \o Quote(IF company # << >> THEN name \o << " " >> \o company ELSE name)

\* What one SerpAPI lookup meets: no key, a transport or JSON error, or a
\* list of organic results (link, title).
SerpResult(link, title) == [ link |-> link, title |-> title ]

SerpLookups ==
    { [ key |-> FALSE, kind |-> "ok", organic_results |-> << >> ],
      [ key |-> TRUE, kind |-> "raise", organic_results |-> << >> ],
      [ key |-> TRUE, kind |-> "ok", organic_results |->
          << SerpResult(LinkedinIn \o SlugTest, << "T", "i", "a" >>),
             SerpResult(LinkedinIn \o << "b", "o", "b" >>, << "b", "o", "b" >>),
             SerpResult(LinkedinIn \o SlugTia \o << "/", "?", "x" >>, << "T", "i", "a", " ", "X" >>) >> ],
      [ key |-> TRUE, kind |-> "ok", organic_results |->
          << SerpResult(NewsUrl, << "T", "i", "a" >>) >> ] }

\* str.split(): the non-empty pieces between blanks
Words(str) == SelectSeq(Split(str, << " " >>), LAMBDA w : w # << >>)

\* the first organic result that is a profile link, validates after its
\* tracking parameters are cut, and whose title holds a part of the name
RECURSIVE FirstProfileLink(_, _)
FirstProfileLink(results, name) ==
    IF results = << >> THEN NoneStr
    ELSE
      LET link == Head(results).link
          clean_url == RStrip(Split(link, << "?" >>)[1], { "/" })
          title == Lower(Head(results).title)
          name_parts == Words(Lower(name))
          matching == \E i \in 1..Len(name_parts) :
                          Len(name_parts[i]) > 2 /\ Contains(title, name_parts[i])
      IN  IF /\ link # << >>
             /\ Contains(link, InSep)
             /\ Contains(Lower(link), << "l", "i", "n", "k", "e", "d", "i", "n", ".", "c", "o", "m" >> \o InSep)
             /\ _validate_linkedin_url(StrV(clean_url)) # NoneStr
             /\ matching
          THEN StrV(clean_url)
          ELSE FirstProfileLink(Tail(results), name)

_lookup_linkedin_via_serpapi(name, lookup) ==
    IF ~lookup.key \/ lookup.kind = "raise" THEN NoneStr
    ELSE FirstProfileLink(lookup.organic_results, name)

\* `name = str(item.get("name", "") or "").strip()`; `if not name: continue`
NormKept(item) == item.isdict /\ Strip(item.name) # << >>

\* int(inf) raises OverflowError, which _safe_int does not catch
NormRaises(items) ==
    \E i \in 1..Len(items) : NormKept(items[i]) /\ items[i].match_score.t = "inf"

\* `[str(s).strip() for s in sources_value if isinstance(s, str) and s.strip()]`
SourcesOf(sources_value) ==
    LET strs == SelectSeq(sources_value, LAMBDA s : Strip(s) # << >>)
    IN  [ i \in 1..Len(strs) |-> Strip(strs[i]) ]

\* the model's linkedin_url, or else the first source that is a profile link
RECURSIVE FirstLinkedinSource(_)
FirstLinkedinSource(sources) ==
    IF sources = << >> THEN << >>
    ELSE IF Contains(Lower(Head(sources)),
                     << "l", "i", "n", "k", "e", "d", "i", "n", ".", "c", "o", "m" >> \o InSep)
         THEN Head(sources)
         ELSE FirstLinkedinSource(Tail(sources))

\* the mutant of the validation step: the raw URL is taken as it comes
LinkedinUrlUnvalidated(linkedin_url_raw) ==
    IF linkedin_url_raw = << >> THEN NoneStr ELSE StrV(linkedin_url_raw)

\* `linkedin_url = _validate_linkedin_url(linkedin_url_raw)`
LinkedinUrlValidated(linkedin_url_raw) == _validate_linkedin_url(StrV(linkedin_url_raw))

\* company: what follows the last "at ", "@ " or ", " in the position, for
\* the first of these keywords the position contains
CompanyKeywords == << << "a", "t", " " >>, << "@", " " >>, << ",", " " >> >>

CompanyOf(position) ==
    LET hits == { k \in 1..Len(CompanyKeywords) : Contains(position, CompanyKeywords[k]) }
    IN  IF position = << >> \/ hits = { } THEN << >>
        ELSE LET k == CHOOSE h \in hits : \A j \in hits : h <= j
                 pieces == Split(position, CompanyKeywords[k])
             IN  Strip(pieces[Len(pieces)])

\* match_score of the record: `_safe_int(...)`, clamped, then `match_score or 70`
NormScore(item) ==
    LET raw == IF item.match_score.t = "absent" THEN IntV(0) ELSE item.match_score
        clamped == Max(0, Min(_safe_int(raw, 0), 100))
    IN  IF clamped = 0 THEN 70 ELSE clamped

NormRecord(item, lookup) ==
    LET name == Strip(item.name)
        position == Strip(item.position)
        sources == SourcesOf(item.sources)
        given == Strip(item.linkedin_url)
        linkedin_url_raw == IF given # << >> THEN given ELSE FirstLinkedinSource(sources)
        validated == LinkedinUrlValidated(linkedin_url_raw)
        company == CompanyOf(position)
        serpapi_url == _lookup_linkedin_via_serpapi(name, lookup)
    IN  [ name |-> name,
          position |-> position,
          linkedin_url |-> IF validated # NoneStr THEN validated.s
                           ELSE IF serpapi_url # NoneStr THEN serpapi_url.s
                           ELSE _generate_linkedin_search_url(name, company),
          match_score |-> NormScore(item),
          sources |-> sources ]

\* the whole function: lookup is what SerpAPI answers during this call,
\* should the code ask it
RECURSIVE NormalizeFrom(_, _)
NormalizeFrom(items, lookup) ==
    IF items = << >> THEN << >>
    ELSE IF NormKept(Head(items))
         THEN << NormRecord(Head(items), lookup) >> \o NormalizeFrom(Tail(items), lookup)
         ELSE NormalizeFrom(Tail(items), lookup)

NormalizeFull(items, lookup) ==
    IF NormRaises(items) THEN [ kind |-> "raised", recs |-> << >> ]
    ELSE [ kind |-> "returned", recs |-> NormalizeFrom(items, lookup) ]


\* ------------------------------------------------------------------ get_html
PageBody == << "<", "p", ">" >>

\* What session.get does in one attempt: it raises a RequestException
\* (status 0 here), or gives a response with a status and a text.
HttpResponses ==
    { [ status |-> 0, text |-> << >> ] } \cup
    { [ status |-> 200, text |-> t ] :
        t \in { PageBody, << " " >> \o PageBody, << " " >>, << >> } } \cup
    { [ status |-> st, text |-> PageBody ] : st \in { 403, 429, 500 } }

\* `r.status_code == 200 and r.text.strip()`
GoodResponse(r) == r.status = 200 /\ Strip(r.text) # << >>

\* the mutant of the delay: the same delay whatever the failure
BackoffFlat(i, r) == 2 + i * 2

\* the sleep after failed attempt i: 8 + i * 5 for 403/429, else 2 + i * 2
Backoff(i, r) == IF r.status \in { 403, 429 } THEN 8 + i * 5 ELSE 2 + i * 2

GetEvent(i, r) == [ ev |-> "get", i |-> i, r |-> r, secs |-> 0 ]
SleepEvent(i, r) == [ ev |-> "sleep", i |-> i, r |-> r, secs |-> Backoff(i, r) ]


\* ------------------------------------------------- WebScraper.search_person
\* the adapters, in the order search_person consults them
Adapters == << "google_api", "bing", "google", "duckduckgo" >>

SearchConfigs == [ api_key : BOOLEAN, cx : BOOLEAN ]

\* What one adapter's request meets: session.get raises (transport), the
\* status is an error (raise_for_status raises), the body cannot be parsed
\* (resp.json() raises, or the HTML holds no result block), DuckDuckGo's
\* challenge page, or a page of result blocks.  A block is a "hit" (title and
\* link there), "bare" (no title element: skipped) or "broken" (reading it
\* raises inside the loop, e.g. an item that is no dict).
WebOutcomes ==
    { [ kind |-> k, blocks |-> << >> ] : k \in { "transport", "status", "unparsable", "challenge" } } \cup
    { [ kind |-> "page", blocks |-> b ] : b \in SeqsUpTo({ "hit", "bare", "broken" }, MaxBlocks) }

WebSearchResult(adapter, rank) == [ engine |-> adapter, rank |-> rank ]

\* the loop over the first max_results blocks; `except Exception` ends it at a
\* broken block and the results gathered so far are returned
RECURSIVE ParseBlocks(_, _, _)
ParseBlocks(adapter, blocks, k) ==
    IF k > Len(blocks) \/ blocks[k] = "broken" THEN << >>
    ELSE IF blocks[k] = "hit"
         THEN << WebSearchResult(adapter, k) >> \o ParseBlocks(adapter, blocks, k + 1)
         ELSE ParseBlocks(adapter, blocks, k + 1)

\* does the adapter send a request?  Only _search_google_api may return early
IsKeyed(adapter, c) == adapter # "google_api" \/ (c.api_key /\ c.cx)

\* one adapter, from its request to its `return results`
AdapterResults(adapter, o, max_results) ==
    IF o.kind # "page" THEN << >>
    ELSE ParseBlocks(adapter, PySliceTo(o.blocks, max_results), 1)

\* the mutant of `if not results:`: the next adapter is tried regardless
ProceedsAlways(results) == TRUE

\* `if not results:` before each later adapter
Proceeds(results) == results = << >>

AdapterCall(adapter, results) == [ adapter |-> adapter, results |-> results ]


\* ----------------------------------------------- _build_serpapi_search_query
Site == << "s", "i", "t", "e", ":", "l", "i", "n", "k", "e", "d", "i", "n", ".", "c", "o", "m", "/", "i", "n", "/" >>
Dq == << "\"" >>

\* f'"{x}"'
Quoted(x) == Dq \o x \o Dq

\* sep.join(parts)
RECURSIVE Join(_, _)
Join(parts, sep) ==
    IF parts = << >> THEN << >>
    ELSE IF Len(parts) = 1 THEN parts[1]
    ELSE parts[1] \o sep \o Join(Tail(parts), sep)

\* [x.strip() for x in xs if x.strip()]
StrippedNonBlank(xs) ==
    LET kept == SelectSeq(xs, LAMBDA x : Strip(x) # << >>)
    IN  [ i \in 1..Len(kept) |-> Strip(kept[i]) ]

\* "(" + " OR ".join(f'"{t}"' for t in xs[:3]) + ")"
OrGroup(xs) ==
    LET first == PySliceTo(xs, 3)
    IN  << "(" >> \o Join([ i \in 1..Len(first) |-> Quoted(first[i]) ], << " ", "O", "R", " " >>) \o << ")" >>

\* the keywords looked for in search_intent, in the code's order
IntentKeywords ==
    << << "M", "&", "A" >>,
       << "P", "E" >>,
       << "V", "C" >>,
       << "I", "B" >>,
       << "A", "M" >>,
       << "H", "F" >>,
       << "T", "M", "T" >>,
       << "H", "e", "a", "l", "t", "h", "c", "a", "r", "e" >>,
       << "F", "I", "G" >>,
       << "T", "e", "c", "h" >> >>

\* the preferences dict: None, or its values under the keys the function reads
NoPrefs ==
    [ isdict |-> FALSE, seniority |-> << >>, target_role_titles |-> << >>, must_have |-> << >>,
      org_type |-> << >>, search_intent |-> << >>, group |-> << >>, sector |-> << >>,
      location |-> << >>, must_not |-> << >> ]

Preferences ==
    { NoPrefs } \cup
    [ isdict : { TRUE },
      seniority : { << >>, << "V", "P" >> },
      target_role_titles : SeqsUpTo({ << " " >>, << "C", "E", "O" >>, << "C", "T", "O" >> }, MaxTitles),
      must_have : { << >>, << "A", "c", "m", "e", ",", " ", "x", " ", "y", ",", " ", "z" >> },
      org_type : { << >>, << "B", "a", "n", "k" >> },
      search_intent : { << >>, << "a", " ", "v", "c", " ", "o", "r", " ", "p", "e", " ", "j", "o", "b" >> },
      group : { << >>, << "T", "M", "T" >> },
      sector : { << >> },
      location : { << >>, << "N", "Y", "C", ",", " ", "N", "Y" >> },
      must_not : { << >>, << "a", ",", " ", "b", ",", " ", "c" >> } ] \cup
    { [ NoPrefs EXCEPT !.isdict = TRUE, !.sector = << "T", "e", "c", "h" >> ] }

QueryFields == { << >>, << "A", "I" >> }
QueryPurposes == { << >>, << "j", "o", "b", "s" >> }

\* 1. titles, else seniority
TitleParts(prefs) ==
    LET titles == StrippedNonBlank(prefs.target_role_titles)
    IN  IF prefs.target_role_titles # << >>
        THEN IF Len(titles) > 1 THEN << OrGroup(titles) >>
             ELSE IF Len(titles) = 1 THEN << Quoted(titles[1]) >>
             ELSE << >>
        ELSE IF Strip(prefs.seniority) # << >> THEN << Quoted(Strip(prefs.seniority)) >>
        ELSE << >>

\* 2. companies out of must_have, else org_type
CompanyParts(prefs) ==
    LET keywords == StrippedNonBlank(Split(Strip(prefs.must_have), << "," >>))
        companies == SelectSeq(keywords, LAMBDA k : Len(Words(k)) >= 2 \/ IsUpper(k[1]))
    IN  IF Strip(prefs.must_have) # << >>
        THEN IF Len(companies) > 1 THEN << OrGroup(companies) >>
             ELSE IF Len(companies) = 1 THEN << Quoted(companies[1]) >>
             ELSE << >>
        ELSE IF Strip(prefs.org_type) # << >> THEN << Quoted(Strip(prefs.org_type)) >>
        ELSE << >>

\* 3. group, else sector, else the first keyword found in search_intent
TopicParts(prefs) ==
    LET hits == { k \in 1..Len(IntentKeywords) :
                    Contains(Lower(Strip(prefs.search_intent)), Lower(IntentKeywords[k])) }
    IN  IF Strip(prefs.group) # << >> THEN << Quoted(Strip(prefs.group)) >>
        ELSE IF Strip(prefs.sector) # << >> THEN << Quoted(Strip(prefs.sector)) >>
        ELSE IF Strip(prefs.search_intent) # << >> /\ hits # { }
             THEN << Quoted(IntentKeywords[CHOOSE k \in hits : \A j \in hits : k <= j]) >>
        ELSE << >>

\* `if len(parts) <= 2 and field`
FieldParts(parts, field) ==
    IF Len(parts) <= 2 /\ field # << >> THEN << Quoted(field) >> ELSE << >>

\* 4. location, 5. must_not
LocationParts(prefs) ==
    IF Strip(prefs.location) # << >>
    THEN << Quoted(Strip(Split(Strip(prefs.location), << "," >>)[1])) >>
    ELSE << >>

ExcludeParts(prefs) ==
    LET excludes == PySliceTo(StrippedNonBlank(Split(Strip(prefs.must_not), << "," >>)), 2)
    IN  IF Strip(prefs.must_not) # << >>
        THEN [ i \in 1..Len(excludes) |-> << "-" >> \o Quoted(excludes[i]) ]
        ELSE << >>

_build_serpapi_search_query(preferences, field, purpose) ==
    LET prefs == IF preferences.isdict THEN preferences ELSE NoPrefs
        parts == << Site >> \o TitleParts(prefs) \o CompanyParts(prefs) \o TopicParts(prefs)
    IN  Join(parts \o FieldParts(parts, field) \o LocationParts(prefs) \o ExcludeParts(prefs),
             << " " >>)


\* -------------------------- generate_next_question / _next_target_question
QuestionFunctions == { "generate_next_question", "generate_next_target_question" }

\* an entry of history: something that is no dict, or a dict whose "question"
\* is text, blank, or missing ("")
HistoryEntry(isdict, question) == [ isdict |-> isdict, question |-> question ]

HistoryEntries ==
    { HistoryEntry(FALSE, ""), HistoryEntry(TRUE, "Q"), HistoryEntry(TRUE, " "),
      HistoryEntry(TRUE, "") }

\* asked_count: the dict entries with a non-blank question
RECURSIVE asked_count(_)
asked_count(history) ==
    IF history = << >> THEN 0
    ELSE (IF Head(history).isdict /\ ~Blank(Head(history).question) THEN 1 ELSE 0)
         + asked_count(Tail(history))

\* `max_questions is not None and int(max_questions) > 0 and asked_count >= int(max_questions)`
CapReached(history, max_questions) ==
    max_questions > 0 /\ asked_count(history) >= max_questions

\* What _call_gemini yields: it raises; text that is not JSON; JSON that is no
\* object; or an object with or without "done" and "question".
QuestionAnswers ==
    { [ kind |-> k, has_done |-> FALSE, done |-> FALSE, question |-> "" ] :
        k \in { "raise", "nonjson", "nonobject" } } \cup
    { [ kind |-> "object", has_done |-> TRUE, done |-> TRUE, question |-> "" ] } \cup
    { [ kind |-> "object", has_done |-> hd, done |-> FALSE, question |-> q ] :
        hd \in BOOLEAN, q \in { "Q", " ", "" } }

FallbackQuestion(fn) ==
    IF fn = "generate_next_question"
    THEN "Which aspect of your background do you think is most relevant for this outreach?"
    ELSE "What type of target would you most like to reach (for example, seniority or role)?"

QuestionResult(kind, done, question, asked_model) ==
    [ kind |-> kind, done |-> done, question |-> question, asked_model |-> asked_model ]

\* either function, from its cap test to its return
next_question(fn, history, max_questions, answer) ==
    IF CapReached(history, max_questions) THEN QuestionResult("returned", TRUE, "", FALSE)
    ELSE IF answer.kind = "raise" THEN QuestionResult("raised", FALSE, "", TRUE)
    ELSE IF answer.kind # "object" THEN QuestionResult("returned", FALSE, FallbackQuestion(fn), TRUE)
    ELSE QuestionResult("returned", answer.has_done /\ answer.done, answer.question, TRUE)


\* ------------------------------------------------------ PromptDataCollector
\* the concurrent callers of the one collector instance
Threads == { "t1", "t2" }

\* session ids: uuid number n is the n-th one start_session draws; 0 is an id
\* no session ever had
SessionIds == 1..MaxSessions

\* a PromptRecord, by which of its two steps have been recorded
NewRecord == [ made |-> TRUE, find_target |-> FALSE, generate_email |-> FALSE ]
NoRecord == [ made |-> FALSE, find_target |-> FALSE, generate_email |-> FALSE ]

ThreadIdle == [ pc |-> "idle", op |-> "none", sid |-> 0 ]

\* the mutant of Lock: `with self._session_lock` lets everybody in
CanAcquireAlways(lock) == TRUE

\* `with self._session_lock:` is entered when nobody holds the lock
CanAcquire(lock) == lock = { }

\* the first step inside the lock, per method
FirstLocked(op) == IF op = "start_session" THEN "insert" ELSE "check"

\* the step after `if session_id not in self._current_sessions`
AfterCheck(op) == IF op = "end_session" THEN "pop" ELSE "write"

\* record.prompt_... = prompt; record.output_... = output
Written(record, op) ==
    IF op = "record_find_target" THEN [ record EXCEPT !.find_target = TRUE ]
    ELSE [ record EXCEPT !.generate_email = TRUE ]

\* ------------------------------------------------------ specifications
\* Each specification runs one machine; the others stay idle.
FtrIdle ==
    /\ pc = "idle"
    /\ count = 0
    /\ cfg = [ serpapi_key |-> FALSE, gemini_key |-> FALSE, openai_key |-> FALSE,
               USE_GEMINI_SEARCH |-> FALSE, USE_OPENAI_WEB_SEARCH |-> FALSE,
               USE_OPENAI_RECOMMENDATIONS |-> FALSE ]
    /\ status = [ s \in StrategySet |-> "pending" ]
    /\ serp = << >>
    /\ found = << >>
    /\ result = << >>
    /\ outcome = "running"
    /\ calls = [ s \in StrategySet |-> { } ]

DedupIdle ==
    /\ d_pc = "idle"
    /\ d_in = << >>
    /\ d_out = << >>
    /\ d_again = << >>

UrlIdle ==
    /\ u_pc = "idle"
    /\ u_url = NoneStr
    /\ u_out = NoneStr

ExtractIdle ==
    /\ x_pc = "idle"
    /\ x_text = << >>
    /\ x_name = ""
    /\ x_resp = [ kind |-> "raise", obj |-> EmptyObj ]
    /\ x_out = Raised

CrawlIdle ==
    /\ c_pc = "idle"
    /\ c_limit = 0
    /\ c_page = << >>
    /\ c_links = << >>
    /\ c_idx = 0
    /\ c_failed = << >>
    /\ c_results = << >>
    /\ c_deduped = << >>
    /\ c_out = [ kind |-> "running", recs |-> << >> ]
    /\ c_log = << >>
    /\ c_resp = [ kind |-> "none", items |-> << >> ]

EmailIdle ==
    /\ m_pc = "idle"
    /\ m_op = "generate"
    /\ m_style = "professional"
    /\ m_llm = "injected"
    /\ m_resp = [ kind |-> "raise", subject |-> JAbsent, body |-> JAbsent ]
    /\ m_calls = 0
    /\ m_out = NoResult("")

ProfileIdle ==
    /\ p_pc = "idle"
    /\ p_cls = "ProfileBase"
    /\ p_obj = [ key \in ProfileKeys |-> JAbsent ]
    /\ p_missing = { }
    /\ p_back = [ key \in ProfileKeys |-> JAbsent ]

NormIdle ==
    /\ n_pc = "idle"
    /\ n_items = << >>
    /\ n_lookup = [ key |-> FALSE, kind |-> "ok", organic_results |-> << >> ]
    /\ n_out = [ kind |-> "returned", recs |-> << >> ]

HtmlIdle ==
    /\ h_pc = "idle"
    /\ h_i = 0
    /\ h_log = << >>
    /\ h_out = [ kind |-> "running", text |-> << >> ]

SearchIdle ==
    /\ w_pc = "idle"
    /\ w_cfg = [ api_key |-> FALSE, cx |-> FALSE ]
    /\ w_max = 0
    /\ w_calls = << >>
    /\ w_results = << >>
    /\ w_out = [ kind |-> "running", results |-> << >> ]

QueryIdle ==
    /\ q_pc = "idle"
    /\ q_prefs = NoPrefs
    /\ q_field = << >>
    /\ q_purpose = << >>
    /\ q_out = << >>

QuestionsIdle ==
    /\ s_pc = "idle"
    /\ s_fn = "generate_next_question"
    /\ s_max = 0
    /\ s_history = << >>
    /\ s_result = QuestionResult("none", FALSE, "", FALSE)
    /\ s_calls = 0
    /\ s_asked = 0

CollectorIdle ==
    /\ k_enabled = TRUE
    /\ k_live = { }
    /\ k_records = [ sid \in SessionIds |-> NoRecord ]
    /\ k_next = 0
    /\ k_lock = { }
    /\ k_thr = [ t \in Threads |-> ThreadIdle ]
    /\ k_handed = [ sid \in SessionIds |-> { } ]
    /\ k_snap = [ sid \in SessionIds |-> NoRecord ]

OldIdle ==
    FtrIdle /\ DedupIdle /\ UrlIdle /\ ExtractIdle /\ CrawlIdle /\ EmailIdle /\ ProfileIdle

RestIdle == NormIdle /\ HtmlIdle /\ SearchIdle /\ QueryIdle /\ QuestionsIdle /\ CollectorIdle

InitUrl ==
    /\ u_pc = "call"
    /\ u_url \in UrlArgs
    /\ u_out = NoneStr
    /\ FtrIdle
    /\ DedupIdle
    /\ ExtractIdle
    /\ CrawlIdle
    /\ EmailIdle
    /\ ProfileIdle
    /\ RestIdle

Validate ==
    /\ u_pc = "call"
    /\ u_out' = _validate_linkedin_url(u_url)
    /\ u_pc' = "done"
    /\ UNCHANGED << u_url, nonUrlVars >>

NextUrl == Validate

SpecUrl == InitUrl /\ [][NextUrl]_vars

InitExtract ==
    /\ x_pc = "call"
    /\ x_text \in PageTexts
    /\ x_name \in FallbackNames
    /\ x_resp \in ModelResponses
    /\ x_out = Raised
    /\ FtrIdle
    /\ DedupIdle
    /\ UrlIdle
    /\ CrawlIdle
    /\ EmailIdle
    /\ ProfileIdle
    /\ RestIdle

Extract ==
    /\ x_pc = "call"
    /\ x_out' = llm_extract(x_text, x_name, x_resp)
    /\ x_pc' = "done"
    /\ UNCHANGED << x_text, x_name, x_resp, nonExtractVars >>

NextExtract == Extract

SpecExtract == InitExtract /\ [][NextExtract]_vars

InitCrawl ==
    /\ c_pc = "start"
    /\ c_limit \in 0..MaxLimit
    /\ c_page \in SeqsUpTo(Anchors, MaxAnchors)
    /\ c_links = << >>
    /\ c_idx = 0
    /\ c_failed = << >>
    /\ c_results = << >>
    /\ c_deduped = << >>
    /\ c_out = [ kind |-> "running", recs |-> << >> ]
    /\ c_log = << >>
    /\ c_resp = [ kind |-> "none", items |-> << >> ]
    /\ FtrIdle
    /\ DedupIdle
    /\ UrlIdle
    /\ ExtractIdle
    /\ EmailIdle
    /\ ProfileIdle
    /\ RestIdle

\* lines 376-412: no API key, no list URL or an empty list page raise
CrawlStart ==
    /\ c_pc = "start"
    /\ \/ /\ c_pc' = "done"
          /\ c_out' = [ kind |-> "raised", recs |-> << >> ]
          /\ UNCHANGED << c_links, c_idx >>
       \/ /\ c_links' = CrawlLinks(c_page, c_limit)
          /\ c_idx' = 1
          /\ c_pc' = "loop"
          /\ UNCHANGED c_out
    /\ UNCHANGED << c_limit, c_page, c_failed, c_results, c_deduped, c_log, c_resp, nonCrawlVars >>

\* lines 416-441: one pass of the loop, polite_sleep included
CrawlLink ==
    /\ c_pc = "loop"
    /\ c_idx <= Len(c_links)
    /\ \E o \in LinkOutcomes :
         LET link == c_links[c_idx]
             failed == o = "raises"
         IN  /\ c_results' = Append(c_results,
                                    IF failed THEN FailedRecord(link.name, link.url)
                                    ELSE ExtractedRecord(o, link.name, link.url))
             /\ c_failed' = Append(c_failed, failed)
             /\ c_log' = c_log \o << FetchEvent(link.url) >> \o polite_sleep(failed)
    /\ c_idx' = c_idx + 1
    /\ UNCHANGED << c_pc, c_limit, c_page, c_links, c_deduped, c_out, c_resp, nonCrawlVars >>

\* lines 455-465
CrawlDedup ==
    /\ c_pc = "loop"
    /\ c_idx > Len(c_links)
    /\ c_deduped' = Dedup(c_results)
    /\ c_pc' = "clean"
    /\ UNCHANGED << c_limit, c_page, c_links, c_idx, c_failed, c_results, c_out, c_log, c_resp,
                    nonCrawlVars >>

\* lines 467-469
CrawlClean ==
    /\ c_pc = "clean"
    /\ \E resp \in CleanResponses(c_deduped) :
         /\ c_out' = [ kind |-> "returned", recs |-> clean_profiles_with_gemini(c_deduped, resp) ]
         /\ c_resp' = resp
    /\ c_pc' = "done"
    /\ UNCHANGED << c_limit, c_page, c_links, c_idx, c_failed, c_results, c_deduped, c_log,
                    nonCrawlVars >>

NextCrawl ==
    \/ CrawlStart
    \/ CrawlLink
    \/ CrawlDedup
    \/ CrawlClean

SpecCrawl == InitCrawl /\ [][NextCrawl]_vars

InitEmail ==
    /\ m_pc = "call"
    /\ m_op \in { "generate", "regenerate" }
    /\ m_style \in EmailStyles \cup (IF m_op = "regenerate" THEN { "none" } ELSE { })
    /\ m_llm \in { "injected", "lazy", "lazy_fails" }
    /\ m_resp \in LlmResponses
    /\ m_calls = 0
    /\ m_out = NoResult("")
    /\ FtrIdle
    /\ DedupIdle
    /\ UrlIdle
    /\ ExtractIdle
    /\ CrawlIdle
    /\ ProfileIdle
    /\ RestIdle

\* email_service.py lines 76-103
Generate ==
    /\ m_pc = "call"
    /\ m_op = "generate"
    /\ m_out' = generate(m_llm, m_resp, m_style)
    /\ m_calls' = IF m_llm = "lazy_fails" THEN 0 ELSE 1
    /\ m_pc' = "done"
    /\ UNCHANGED << m_op, m_style, m_llm, m_resp, nonEmailVars >>

\* email_service.py lines 105-139
Regenerate ==
    /\ m_pc = "call"
    /\ m_op = "regenerate"
    /\ m_out' = regenerate(m_llm, m_resp, m_style)
    /\ m_calls' = IF m_llm = "lazy_fails" THEN 0 ELSE 1
    /\ m_pc' = "done"
    /\ UNCHANGED << m_op, m_style, m_llm, m_resp, nonEmailVars >>

NextEmail ==
    \/ Generate
    \/ Regenerate

SpecEmail == InitEmail /\ [][NextEmail]_vars

InitProfile ==
    /\ p_pc = "start"
    /\ p_cls \in ProfileClasses
    /\ p_obj \in Profiles(p_cls)
    /\ p_missing \in SUBSET FieldsOf(p_cls)
    /\ p_back = [ key \in ProfileKeys |-> JAbsent ]
    /\ FtrIdle
    /\ DedupIdle
    /\ UrlIdle
    /\ ExtractIdle
    /\ CrawlIdle
    /\ EmailIdle
    /\ RestIdle

\* cls.from_dict(p.to_dict())
RoundTrip ==
    /\ p_pc = "start"
    /\ p_back' = from_dict(p_cls, to_dict(p_cls, p_obj))
    /\ p_pc' = "round"
    /\ UNCHANGED << p_cls, p_obj, p_missing, nonProfileVars >>

\* cls.from_dict(data) for a dict that lacks some keys
FromPartialDict ==
    /\ p_pc = "start"
    /\ p_back' = from_dict(p_cls, WithoutKeys(to_dict(p_cls, p_obj), p_missing))
    /\ p_pc' = "partial"
    /\ UNCHANGED << p_cls, p_obj, p_missing, nonProfileVars >>

NextProfile ==
    \/ RoundTrip
    \/ FromPartialDict

SpecProfile == InitProfile /\ [][NextProfile]_vars

InitNorm ==
    /\ n_pc = "call"
    /\ n_items \in SeqsUpTo(NormItems, MaxNorm)
    /\ n_lookup \in SerpLookups
    /\ n_out = [ kind |-> "returned", recs |-> << >> ]
    /\ OldIdle
    /\ HtmlIdle
    /\ SearchIdle
    /\ QueryIdle
    /\ QuestionsIdle
    /\ CollectorIdle

Normalize ==
    /\ n_pc = "call"
    /\ n_out' = NormalizeFull(n_items, n_lookup)
    /\ n_pc' = "done"
    /\ UNCHANGED << n_items, n_lookup, nonNormVars >>

NextNorm == Normalize

SpecNorm == InitNorm /\ [][NextNorm]_vars


InitHtml ==
    /\ h_pc = "loop"
    /\ h_i = 0
    /\ h_log = << >>
    /\ h_out = [ kind |-> "running", text |-> << >> ]
    /\ OldIdle
    /\ NormIdle
    /\ SearchIdle
    /\ QueryIdle
    /\ QuestionsIdle
    /\ CollectorIdle

\* one turn of `for i in range(retries)`: the request, then the return or
\* the sleep
Attempt ==
    /\ h_pc = "loop"
    /\ h_i < DefaultRetries
    /\ \E r \in HttpResponses :
          IF GoodResponse(r)
          THEN /\ h_log' = Append(h_log, GetEvent(h_i, r))
               /\ h_out' = [ kind |-> "returned", text |-> r.text ]
               /\ h_pc' = "done"
               /\ UNCHANGED h_i
          ELSE /\ h_log' = h_log \o << GetEvent(h_i, r), SleepEvent(h_i, r) >>
               /\ h_i' = h_i + 1
               /\ UNCHANGED << h_pc, h_out >>
    /\ UNCHANGED nonHtmlVars

\* the loop is exhausted: `return ""`
GiveUp ==
    /\ h_pc = "loop"
    /\ h_i = DefaultRetries
    /\ h_out' = [ kind |-> "returned", text |-> << >> ]
    /\ h_pc' = "done"
    /\ UNCHANGED << h_i, h_log, nonHtmlVars >>

NextHtml ==
    \/ Attempt
    \/ GiveUp

SpecHtml == InitHtml /\ [][NextHtml]_vars


InitSearch ==
    /\ w_pc = Adapters[1]
    /\ w_cfg \in SearchConfigs
    /\ w_max \in 0..MaxBlocks
    /\ w_calls = << >>
    /\ w_results = << >>
    /\ w_out = [ kind |-> "running", results |-> << >> ]
    /\ OldIdle
    /\ NormIdle
    /\ HtmlIdle
    /\ QueryIdle
    /\ QuestionsIdle
    /\ CollectorIdle

\* the block of adapter number k in search_person
Consult(k) ==
    /\ w_pc = Adapters[k]
    /\ IF k = 1 \/ Proceeds(w_results)
       THEN IF IsKeyed(Adapters[k], w_cfg)
            THEN \E o \in WebOutcomes :
                    /\ o.kind = "challenge" => Adapters[k] = "duckduckgo"
                    /\ w_results' = AdapterResults(Adapters[k], o, w_max)
                    /\ w_calls' = Append(w_calls, AdapterCall(Adapters[k], w_results'))
            ELSE /\ w_results' = << >>
                 /\ UNCHANGED w_calls
       ELSE UNCHANGED << w_results, w_calls >>
    /\ w_pc' = IF k < Len(Adapters) THEN Adapters[k + 1] ELSE "return"
    /\ UNCHANGED << w_cfg, w_max, w_out, nonSearchVars >>

SearchGoogleApi == Consult(1)
SearchBing == Consult(2)
SearchGoogle == Consult(3)
SearchDuckDuckGo == Consult(4)

\* `return results`
SearchReturn ==
    /\ w_pc = "return"
    /\ w_out' = [ kind |-> "returned", results |-> w_results ]
    /\ w_pc' = "done"
    /\ UNCHANGED << w_cfg, w_max, w_calls, w_results, nonSearchVars >>

NextSearch ==
    \/ SearchGoogleApi
    \/ SearchBing
    \/ SearchGoogle
    \/ SearchDuckDuckGo
    \/ SearchReturn

SpecSearch == InitSearch /\ [][NextSearch]_vars


InitQuery ==
    /\ q_pc = "call"
    /\ q_prefs \in Preferences
    /\ q_field \in QueryFields
    /\ q_purpose \in QueryPurposes
    /\ q_out = << >>
    /\ OldIdle
    /\ NormIdle
    /\ HtmlIdle
    /\ SearchIdle
    /\ QuestionsIdle
    /\ CollectorIdle

BuildQuery ==
    /\ q_pc = "call"
    /\ q_out' = _build_serpapi_search_query(q_prefs, q_field, q_purpose)
    /\ q_pc' = "done"
    /\ UNCHANGED << q_prefs, q_field, q_purpose, nonQueryVars >>

NextQuery == BuildQuery

SpecQuery == InitQuery /\ [][NextQuery]_vars


InitQuestions ==
    /\ s_pc = "call"
    /\ s_fn \in QuestionFunctions
    /\ s_max \in 0..MaxQuestions
    /\ s_history \in SeqsUpTo(HistoryEntries, MaxHistory)
    /\ s_result = QuestionResult("none", FALSE, "", FALSE)
    /\ s_calls = 0
    /\ s_asked = 0
    /\ OldIdle
    /\ NormIdle
    /\ HtmlIdle
    /\ SearchIdle
    /\ QueryIdle
    /\ CollectorIdle

\* one call of the function named fn with the session's history
AskNext(fn) ==
    /\ s_pc = "call"
    /\ s_fn = fn
    /\ s_calls < MaxTurns
    /\ \E answer \in QuestionAnswers :
          s_result' = next_question(fn, s_history, s_max, answer)
    /\ s_calls' = s_calls + 1
    /\ s_asked' = IF s_result'.kind = "returned" /\ ~s_result'.done THEN s_asked + 1 ELSE s_asked
    /\ s_pc' = IF s_result'.kind = "returned" /\ ~s_result'.done THEN "client" ELSE "done"
    /\ UNCHANGED << s_fn, s_max, s_history, nonQuestionsVars >>

GenerateNextQuestion == AskNext("generate_next_question")
GenerateNextTargetQuestion == AskNext("generate_next_target_question")

\* the client appends the returned question with its answer and calls again
ClientAnswers ==
    /\ s_pc = "client"
    /\ s_history' = Append(s_history, HistoryEntry(TRUE, s_result.question))
    /\ s_pc' = "call"
    /\ UNCHANGED << s_fn, s_max, s_result, s_calls, s_asked, nonQuestionsVars >>

NextQuestions ==
    \/ GenerateNextQuestion
    \/ GenerateNextTargetQuestion
    \/ ClientAnswers

SpecQuestions == InitQuestions /\ [][NextQuestions]_vars


InitCollector ==
    /\ k_enabled \in BOOLEAN
    /\ k_live = { }
    /\ k_records = [ sid \in SessionIds |-> NoRecord ]
    /\ k_next = 1
    /\ k_lock = { }
    /\ k_thr = [ t \in Threads |-> ThreadIdle ]
    /\ k_handed = [ sid \in SessionIds |-> { } ]
    /\ k_snap = [ sid \in SessionIds |-> NoRecord ]
    /\ OldIdle
    /\ NormIdle
    /\ HtmlIdle
    /\ SearchIdle
    /\ QueryIdle
    /\ QuestionsIdle

\* enable() / disable()
SetEnabled ==
    /\ k_enabled' \in BOOLEAN
    /\ k_enabled' # k_enabled
    /\ UNCHANGED << k_live, k_records, k_next, k_lock, k_thr, k_handed, k_snap, nonCollectorVars >>

\* start_session up to its `with`: the uuid is drawn, the record built
StartSession ==
    \E t \in Threads :
        /\ k_thr[t].pc = "idle"
        /\ k_next \in SessionIds
        /\ IF k_enabled
           THEN /\ k_thr' = [ k_thr EXCEPT ![t] = [ pc |-> "lock", op |-> "start_session", sid |-> k_next ] ]
                /\ k_next' = k_next + 1
           ELSE UNCHANGED << k_thr, k_next >>
        /\ UNCHANGED << k_enabled, k_live, k_records, k_lock, k_handed, k_snap, nonCollectorVars >>

\* record_find_target / record_generate_email / end_session up to their
\* `with`: `if not self._enabled or not session_id: return`
CallWithSession ==
    \E t \in Threads, op \in { "record_find_target", "record_generate_email", "end_session" },
       sid \in 0..MaxSessions :
        /\ k_thr[t].pc = "idle"
        /\ k_enabled
        /\ k_thr' = [ k_thr EXCEPT ![t] = [ pc |-> "lock", op |-> op, sid |-> sid ] ]
        /\ UNCHANGED << k_enabled, k_live, k_records, k_next, k_lock, k_handed, k_snap,
                        nonCollectorVars >>

\* `with self._session_lock:`
Acquire ==
    \E t \in Threads :
        /\ k_thr[t].pc = "lock"
        /\ CanAcquire(k_lock)
        /\ k_lock' = k_lock \cup { t }
        /\ k_thr' = [ k_thr EXCEPT ![t].pc = FirstLocked(k_thr[t].op) ]
        /\ UNCHANGED << k_enabled, k_live, k_records, k_next, k_handed, k_snap, nonCollectorVars >>

\* self._current_sessions[session_id] = record, and the lock is left
StartInsert ==
    \E t \in Threads :
        /\ k_thr[t].pc = "insert"
        /\ k_live' = k_live \cup { k_thr[t].sid }
        /\ k_records' = [ k_records EXCEPT ![k_thr[t].sid] = NewRecord ]
        /\ k_lock' = k_lock \ { t }
        /\ k_thr' = [ k_thr EXCEPT ![t] = ThreadIdle ]
        /\ UNCHANGED << k_enabled, k_next, k_handed, k_snap, nonCollectorVars >>

\* `if session_id not in self._current_sessions: return`
CheckSession ==
    \E t \in Threads :
        /\ k_thr[t].pc = "check"
        /\ IF k_thr[t].sid \in k_live
           THEN /\ k_thr' = [ k_thr EXCEPT ![t].pc = AfterCheck(k_thr[t].op) ]
                /\ UNCHANGED k_lock
           ELSE /\ k_thr' = [ k_thr EXCEPT ![t] = ThreadIdle ]
                /\ k_lock' = k_lock \ { t }
        /\ UNCHANGED << k_enabled, k_live, k_records, k_next, k_handed, k_snap, nonCollectorVars >>

\* the two assignments to the record, and the lock is left
RecordWrite ==
    \E t \in Threads :
        /\ k_thr[t].pc = "write"
        /\ IF k_thr[t].sid \in k_live
           THEN /\ k_records' = [ k_records EXCEPT ![k_thr[t].sid] = Written(@, k_thr[t].op) ]
                /\ k_thr' = [ k_thr EXCEPT ![t] = ThreadIdle ]
           ELSE \* self._current_sessions[session_id] raises KeyError
                /\ k_thr' = [ k_thr EXCEPT ![t].pc = "raised" ]
                /\ UNCHANGED k_records
        /\ k_lock' = k_lock \ { t }
        /\ UNCHANGED << k_enabled, k_live, k_next, k_handed, k_snap, nonCollectorVars >>

\* record = self._current_sessions.pop(session_id), and the lock is left
EndPop ==
    \E t \in Threads :
        /\ k_thr[t].pc = "pop"
        /\ IF k_thr[t].sid \in k_live
           THEN /\ k_live' = k_live \ { k_thr[t].sid }
                /\ k_handed' = [ k_handed EXCEPT ![k_thr[t].sid] = @ \cup { t } ]
                /\ k_snap' = [ k_snap EXCEPT ![k_thr[t].sid] = k_records[k_thr[t].sid] ]
                /\ k_thr' = [ k_thr EXCEPT ![t].pc = "save" ]
           ELSE \* pop raises KeyError
                /\ k_thr' = [ k_thr EXCEPT ![t].pc = "raised" ]
                /\ UNCHANGED << k_live, k_handed, k_snap >>
        /\ k_lock' = k_lock \ { t }
        /\ UNCHANGED << k_enabled, k_records, k_next, nonCollectorVars >>

\* self._save_record(record); return record
EndSave ==
    \E t \in Threads :
        /\ k_thr[t].pc = "save"
        /\ k_thr' = [ k_thr EXCEPT ![t] = ThreadIdle ]
        /\ UNCHANGED << k_enabled, k_live, k_records, k_next, k_lock, k_handed, k_snap,
                        nonCollectorVars >>

NextCollector ==
    \/ SetEnabled
    \/ StartSession
    \/ CallWithSession
    \/ Acquire
    \/ StartInsert
    \/ CheckSession
    \/ RecordWrite
    \/ EndPop
    \/ EndSave

SpecCollector == InitCollector /\ [][NextCollector]_vars

InitDedup ==
    /\ d_pc = "input"
    /\ d_in \in SeqsUpTo(AdvisorRecords, MaxRecs)
    /\ d_out = << >>
    /\ d_again = << >>
    /\ FtrIdle
    /\ UrlIdle
    /\ ExtractIdle
    /\ CrawlIdle
    /\ EmailIdle
    /\ ProfileIdle
    /\ RestIdle

DedupOnce ==
    /\ d_pc = "input"
    /\ d_out' = Dedup(d_in)
    /\ d_pc' = "once"
    /\ UNCHANGED << d_in, d_again, nonDedupVars >>

DedupTwice ==
    /\ d_pc = "once"
    /\ d_again' = Dedup(d_out)
    /\ d_pc' = "twice"
    /\ UNCHANGED << d_in, d_out, nonDedupVars >>

NextDedup ==
    \/ DedupOnce
    \/ DedupTwice

SpecDedup == InitDedup /\ [][NextDedup]_vars

InitFTR ==
    /\ pc = "serpapi"
    /\ count \in Counts
    /\ cfg \in Configs
    /\ status = [ s \in StrategySet |-> "pending" ]
    /\ serp = << >>
    /\ found = << >>
    /\ result = << >>
    /\ outcome = "running"
    /\ calls = [ s \in StrategySet |-> { } ]
    /\ DedupIdle
    /\ UrlIdle
    /\ ExtractIdle
    /\ CrawlIdle
    /\ EmailIdle
    /\ ProfileIdle
    /\ RestIdle

NextFTR ==
    \/ TrySerpapi
    \/ TryGeminiSearch
    \/ TryOpenAIWebSearch
    \/ TryOpenAIScrape
    \/ TryGeminiScrape
    \/ TryGeminiText

SpecFTR == InitFTR /\ [][NextFTR]_vars

\* ------------------------------------------------------------------ claims
Range(s) == { s[i] : i \in 1..Len(s) }

\* "uncertainty (string: low, medium, or high, plus a short reason if needed)":
\* the level is the word before the colon.
IsHigh(u) == u \in { "high", "high: no sources available" }

\* The required configuration of each strategy: its key or its flags.
Configured(s) ==
    CASE s = "serpapi" -> cfg.serpapi_key
      [] s = "gemini_search" -> cfg.USE_GEMINI_SEARCH /\ cfg.gemini_key
      [] s = "openai_web" ->
           cfg.USE_OPENAI_WEB_SEARCH /\ cfg.USE_OPENAI_RECOMMENDATIONS /\ cfg.openai_key
      [] s = "openai_scrape" -> cfg.USE_OPENAI_RECOMMENDATIONS /\ cfg.openai_key
      [] OTHER -> cfg.gemini_key

\* C1: whatever the inputs and the outcomes of the strategies, a finished call
\* has returned a list with at least one record.  Stated for the calls the
\* contract cannot mean to exclude: count >= 1 (with count = 0 the slice
\* [:count] of an accepted list is empty as well) and the Gemini key set, so
\* that the scrape-based and the text-only strategy are configured.
C1_ReturnsNonEmpty ==
    (pc = "done" /\ count >= 1 /\ cfg.gemini_key)
        => (outcome = "returned" /\ Len(result) >= 1)

\* C2 (as claimed): the returned list never has more than `count` records.
C2_AtMostCount ==
    outcome = "returned" => Len(result) <= count

\* C2 (amended): for count >= 1 the returned list never has more than `count`
\* records, whichever strategy produced it, the placeholder included.
C2_AtMostCountWhenPositive ==
    (outcome = "returned" /\ count >= 1) => Len(result) <= count

\* a strategy found more records than asked for and the result was cut to count
C2_Witness ==
    /\ outcome = "returned"
    /\ count >= 1
    /\ Len(found) > count
    /\ Len(result) = count

\* C3: when every strategy was skipped, failed or yielded nothing acceptable,
\* the call returns exactly one placeholder record with empty sources and high
\* uncertainty (stated for count >= 1 and the Gemini key set).
C3_ExhaustedGivesPlaceholder ==
    (pc = "done" /\ count >= 1 /\ cfg.gemini_key /\ \A s \in StrategySet : status[s] \in { "skipped", "failed" })
        => /\ outcome = "returned"
           /\ Len(result) = 1
           /\ result[1].via = "fallback"
           /\ result[1].sources = << >>
           /\ IsHigh(result[1].uncertainty)

\* C4: the call raises only when no strategy at all is configured; shown where
\* it matters, with the Gemini key set (and count >= 1): there the scrape-based
\* and the text-only strategy are configured and the claim allows no exception.
C4_RaisesOnlyWhenNothingConfigured ==
    (outcome = "raised" /\ count >= 1 /\ cfg.gemini_key) => \A s \in StrategySet : ~Configured(s)

\* C5: every returned record has an integer match_score in [0,100] (stated for
\* count >= 1).
C5_ScoresInRange ==
    (outcome = "returned" /\ count >= 1) =>
        \A i \in 1..Len(result) :
            result[i].match_score.t = "int" /\ result[i].match_score.v \in 0..100

\* C6: every returned record with an empty sources list has uncertainty high
\* (stated for count >= 1).
C6_NoSourcesMeansHigh ==
    (outcome = "returned" /\ count >= 1) =>
        \A i \in 1..Len(result) :
            result[i].sources = << >> => IsHigh(result[i].uncertainty)

\* C7: when the keyed search ran and yielded fewer than 3 records, the cascade
\* went on to the next strategy and no keyed-search record is in the result.
C7_BelowThresholdAdvances ==
    (status["serpapi"] \notin { "pending", "skipped" } /\ Len(serp) < 3)
        => /\ status["serpapi"] = "failed"
           /\ pc = "gemini_search" \/ status["gemini_search"] # "pending"
           /\ \A i \in 1..Len(result) :
                result[i].via # "serpapi" /\ result[i] \notin Range(serp)

\* the keyed search yielded 2 records and a later strategy's records were returned
C7_Witness ==
    /\ Len(serp) = 2
    /\ outcome = "returned"
    /\ Len(result) >= 1
    /\ status["serpapi"] = "failed"

\* C8 (as claimed): an accepted strategy's output has at least one record with
\* a non-empty sources list (stated for count >= 1).
C8_AcceptedHasSource ==
    \A s \in { "gemini_search", "openai_web", "openai_scrape", "gemini_scrape" } :
        (status[s] = "accepted" /\ count >= 1) => \E i \in 1..Len(found) : found[i].sources # << >>

\* C8 (amended): a model strategy's output is accepted exactly when its
\* normalised list is non-empty (keyed search: at least 3 records), whatever
\* the records' sources; the cascade goes on only past blocks that produced no
\* such list.
C8_AcceptedIffNonEmpty ==
    /\ (outcome = "running" \/ \A s \in StrategySet : status[s] # "accepted") => found = << >>
    /\ \A s \in StrategySet :
         status[s] = "accepted" =>
             /\ Len(found) >= (IF s = "serpapi" THEN 3 ELSE 1)
             /\ result = PySliceTo(found, count)

\* the grounded search is accepted with no record carrying a source
C8_Witness ==
    /\ status["gemini_search"] = "accepted"
    /\ found # << >>
    /\ \A i \in 1..Len(found) : found[i].sources = << >>
    /\ result = found

\* C9: the dedup step applied to its own output returns that output unchanged.
C9_DedupIdempotent ==
    d_pc = "twice" => d_again = d_out

\* the first application merged duplicates, the second changed nothing
C9_Witness ==
    /\ d_pc = "twice"
    /\ Len(d_out) >= 2
    /\ Len(d_out) < Len(d_in)
    /\ d_again = d_out

InputKeys == { KeyOf(d_in[i]) : i \in 1..Len(d_in) }

Group(k) == { i \in 1..Len(d_in) : KeyOf(d_in[i]) = k }

\* the first-seen record of highest completeness score among those with key k
FirstBest(k) ==
    CHOOSE i \in Group(k) :
        /\ \A j \in Group(k) : _score(d_in[j]) <= _score(d_in[i])
        /\ \A j \in Group(k) : _score(d_in[j]) = _score(d_in[i]) => i <= j

\* C10: of the records sharing an identity key the dedup step keeps exactly
\* one, the one of highest completeness score, the first-seen among equals.
C10_KeepsFirstBest ==
    d_pc = "once" =>
        /\ \A k \in InputKeys :
             \E i \in 1..Len(d_out) :
                 /\ d_out[i] = d_in[FirstBest(k)]
                 /\ \A j \in 1..Len(d_out) : KeyOf(d_out[j]) = k => j = i
        /\ \A i \in 1..Len(d_out) : KeyOf(d_out[i]) \in InputKeys

\* two records share the source URL, the first with education [], the second
\* with education ["PhD MIT"]; the second is kept
C10_Witness ==
    /\ d_pc = "once"
    /\ Len(d_in) = 2
    /\ d_in[1].source_url = "https://u.edu/people/jdoe"
    /\ d_in[2] = [ d_in[1] EXCEPT !.education = << "PhD MIT" >> ]
    /\ d_in[1].education = << >>
    /\ d_out = << d_in[2] >>

\* "https://www.linkedin.com/in/" followed by the slug
ProfileUrl(slug) ==
    StrV(<< "h", "t", "t", "p", "s", ":", "/", "/", "w", "w", "w", ".", "l", "i", "n", "k", "e",
            "d", "i", "n", ".", "c", "o", "m", "/", "i", "n", "/" >> \o slug)

UrlTest123 == ProfileUrl(<< "t", "e", "s", "t", "1", "2", "3" >>)
UrlAb == ProfileUrl(<< "a", "b" >>)
UrlA == ProfileUrl(<< "a" >>)
UrlJaneDoe == ProfileUrl(<< "j", "a", "n", "e", "-", "d", "o", "e", "-", "8", "7", "2", "3", "4" >>)

\* C11 (as claimed): the validator returns None for .../in/test123 and for
\* .../in/ab, and returns .../in/jane-doe-87234 unchanged.
C11_RejectsTestAndAb ==
    u_pc = "done" =>
        /\ u_url \in { UrlTest123, UrlAb } => u_out = NoneStr
        /\ u_url = UrlJaneDoe => u_out = UrlJaneDoe

\* C11 (amended): the validator returns None for .../in/test123 and for the
\* one-character slug .../in/a, and returns .../in/ab and
\* .../in/jane-doe-87234 unchanged.
C11_RejectsTestAcceptsAb ==
    u_pc = "done" =>
        /\ u_url \in { UrlTest123, UrlA } => u_out = NoneStr
        /\ u_url \in { UrlAb, UrlJaneDoe } => u_out = u_url

\* the validator was called with .../in/ab and returned it
C11_Witness ==
    /\ u_pc = "done"
    /\ u_url = UrlAb
    /\ u_out = UrlAb

JohnSmithEmail ==
    << "j", "o", "h", "n", ".", "s", "m", "i", "t", "h", "@", "e", "x", "a", "m", "p", "l", "e",
       ".", "o", "r", "g" >>

JohnSmithPage == << "J", "o", "h", "n", " ", "S", "m", "i", "t", "h", " " >> \o JohnSmithEmail

\* C12: when the model's text is not JSON, llm_extract returns the heuristic
\* record: its name is the fallback name and its email is the first e-mail
\* address in the page text - for fallback name "John Smith" and a page that
\* contains john.smith@example.org, name "John Smith" and that address.
C12_HeuristicFindsEmail ==
    (x_pc = "done" /\ x_resp.kind = "nonjson" /\ x_name = "John Smith"
        /\ x_text \in { JohnSmithEmail, JohnSmithPage })
        => /\ x_out.kind = "record"
           /\ x_out.rec.name = JStr("John Smith")
           /\ x_out.rec.email.l = JohnSmithEmail

\* C13: whenever the model call returned, llm_extract returns a record,
\* whatever the text: not JSON, JSON that is no object, or an object with
\* missing keys, extra keys or wrongly typed values.
C13_NeverRaisesOnModelOutput ==
    (x_pc = "done" /\ x_resp.kind # "raise") => x_out.kind = "record"

\* C14: a link whose fetch or extraction raises does not end the loop of
\* crawl_advisors: results holds one record per processed link, in link order,
\* each carrying its link's URL as source_url and, for a failed link, the
\* link's label as name and nothing else; the call raises only before the loop.
C14_OneRecordPerLink ==
    /\ c_pc = "loop" => Len(c_results) = c_idx - 1
    /\ c_pc \in { "clean", "done" } /\ c_out.kind # "raised" => Len(c_results) = Len(c_links)
    /\ c_out.kind = "raised" => c_results = << >> /\ c_links = << >>
    /\ Len(c_failed) = Len(c_results)
    /\ \A i \in 1..Len(c_results) :
         /\ c_results[i].source_url = c_links[i].url
         /\ c_failed[i] =>
              c_results[i] = [ name |-> c_links[i].name, email |-> "",
                               source_url |-> c_links[i].url, education |-> << >> ]

\* the first link failed, the second was processed and extracted
C14_Witness ==
    /\ c_pc = "clean"
    /\ Len(c_results) >= 2
    /\ c_failed[1]
    /\ ~c_failed[2]
    /\ c_results[2].email # ""

\* C15: a call with a positive limit returns at most limit records.
C15_AtMostLimit ==
    (c_pc = "done" /\ c_out.kind = "returned" /\ c_limit >= 1)
        => Len(c_out.recs) <= c_limit

\* C16: generate and regenerate raise EmailServiceError whenever the LLM call
\* fails or its response is not a JSON object, never raise anything else, and
\* a successful generate has called the LLM exactly once.
C16_OnlyEmailServiceError ==
    m_pc = "done" =>
        /\ (m_llm = "lazy_fails" \/ m_resp.kind # "object")
               => (m_out.kind = "raised" /\ m_out.exc = "EmailServiceError")
        /\ m_out.kind = "raised" => m_out.exc = "EmailServiceError"
        /\ (m_op = "generate" /\ m_out.kind = "result") => m_calls = 1

\* regenerate got a JSON list from the LLM and raised EmailServiceError
C16_Witness ==
    /\ m_pc = "done"
    /\ m_op = "regenerate"
    /\ m_resp.kind = "list"
    /\ m_calls = 1
    /\ m_out.kind = "raised"
    /\ m_out.exc = "EmailServiceError"

\* C17: for the three profile classes from_dict(p.to_dict()) has every field
\* of p, and from_dict of a dict that lacks keys gives each missing field its
\* default - raw_text "", the list fields [], motivation and ask "", context
\* None - and every other field the dict's value.
C17_RoundTripAndDefaults ==
    /\ p_pc = "round" => p_back = p_obj
    /\ p_pc = "partial" =>
         \A key \in FieldsOf(p_cls) :
             IF key \notin p_missing THEN p_back[key] = p_obj[key]
             ELSE /\ key \in { "raw_text", "motivation", "ask" } => p_back[key] = JStr("")
                  /\ key \in { "education", "experiences", "skills", "projects", "sources" }
                         => p_back[key] = JList(<< >>)
                  /\ key = "context" => p_back[key] = JNull

\* a ReceiverProfile built from a dict without "context" and "sources"
C17_Witness ==
    /\ p_pc = "partial"
    /\ p_cls = "ReceiverProfile"
    /\ { "context", "sources" } \subseteq p_missing
    /\ p_obj["context"] # JNull
    /\ p_back["context"] = JNull
    /\ p_back["name"] = p_obj["name"]

\* C18: the strategies are tried in the order keyed search, grounded search,
\* OpenAI web search, OpenAI scrape, scrape + Gemini, Gemini text only: a
\* strategy is reached only after every earlier one was skipped or failed;
\* once one is accepted the call is over, no later strategy has run or made a
\* call, and every returned record is one of the accepted strategy's records.
C18_PriorityOrder ==
    /\ \A i, j \in 1..Len(Strategies) :
         (i < j /\ (status[Strategies[j]] # "pending" \/ pc = Strategies[j]))
             => status[Strategies[i]] \in { "skipped", "failed" }
    /\ \A s \in StrategySet : status[s] = "pending" => calls[s] = { }
    /\ \A i \in 1..Len(Strategies) :
         status[Strategies[i]] = "accepted" =>
             /\ pc = "done"
             /\ outcome = "returned"
             /\ \A j \in (i + 1)..Len(Strategies) :
                  status[Strategies[j]] = "pending" /\ calls[Strategies[j]] = { }
             /\ \A k \in 1..Len(result) :
                  result[k].via = Strategies[i] /\ result[k] \in Range(found)

\* the keyed search and the grounded search failed, the scrape-based strategy
\* was accepted and the text-only one never ran
C18_Witness ==
    /\ status["serpapi"] = "failed"
    /\ status["gemini_search"] = "failed"
    /\ calls["gemini_search"] = { "model" }
    /\ status["gemini_scrape"] = "accepted"
    /\ status["gemini_text"] = "pending"
    /\ Len(result) >= 1
    /\ result[1].via = "gemini_scrape"

\* C19: a strategy whose key is absent or whose flag is off makes no external
\* call (search, page fetch, model call), and the cascade goes on to the next
\* strategy.
C19_UnconfiguredMakesNoCall ==
    \A s \in StrategySet :
        (~Configured(s) /\ status[s] # "pending")
            => /\ calls[s] = { }
               /\ status[s] \in { "skipped", "failed" }
               /\ outcome # "raised"

\* C20: the returned list is in non-increasing order of match_score, and
\* keyed-search records of equal score are in the order the search found them
\* (stated for lists whose scores are all integers).
C20_SortedByScore ==
    (outcome = "returned" /\ \A k \in 1..Len(result) : result[k].match_score.t = "int") =>
        \A i, j \in 1..Len(result) :
            i < j =>
                /\ result[i].match_score.v >= result[j].match_score.v
                /\ (result[i].match_score = result[j].match_score /\ result[i].via = "serpapi")
                       => \E a, b \in 1..Len(serp) :
                            a < b /\ serp[a].name = result[i].name /\ serp[b].name = result[j].name

\* The named dicts of the normaliser's input, in order.
KeptItems == SelectSeq(n_items, NormKept)

\* C21: the normaliser clamps an integer score into [0,100] and leaves one
\* already in [0,100] as it is, replaces only a missing or non-integer score
\* by 70, and drops no named record over its score (stated for inputs whose
\* scores are missing or integers in [0,100]).
C21_ScoreKeptUnlessMissing ==
    (/\ n_pc = "done"
     /\ \A i \in 1..Len(KeptItems) :
            \/ KeptItems[i].match_score.t = "absent"
            \/ KeptItems[i].match_score.t = "int" /\ KeptItems[i].match_score.v \in 0..100) =>
        /\ n_out.kind = "returned"
        /\ Len(n_out.recs) = Len(KeptItems)
        /\ \A i \in 1..Len(KeptItems) :
              IF KeptItems[i].match_score.t = "int"
              THEN n_out.recs[i].match_score = KeptItems[i].match_score.v
              ELSE n_out.recs[i].match_score = 70

\* C26: every record the normaliser produces carries a linkedin_url that the
\* validator accepts or that is the people-search URL of its name and
\* company; a URL the model gave and the validator rejects is not it; and the
\* record of every named dict is there.
C26_UrlValidatedOrSearch ==
    (n_pc = "done" /\ n_out.kind = "returned") =>
        /\ Len(n_out.recs) = Len(KeptItems)
        /\ \A i \in 1..Len(KeptItems) :
              LET rec == n_out.recs[i]
                  given == Strip(KeptItems[i].linkedin_url)
                  search == _generate_linkedin_search_url(
                                rec.name, CompanyOf(Strip(KeptItems[i].position)))
              IN  /\ \/ _validate_linkedin_url(StrV(rec.linkedin_url)) # NoneStr
                     \/ rec.linkedin_url = search
                  /\ _validate_linkedin_url(StrV(search)) = NoneStr
                  /\ (given # << >> /\ _validate_linkedin_url(StrV(given)) = NoneStr) =>
                        rec.linkedin_url # given

\* C26 witness: a call that returned two records, one whose model-given URL
\* was rejected and replaced by the search URL with the company in it, one
\* whose URL passed the validator.
C26_Witness ==
    /\ n_pc = "done"
    /\ n_out.kind = "returned"
    /\ Len(KeptItems) = 2
    /\ KeptItems[1].linkedin_url = LinkedinIn \o SlugTest
    /\ KeptItems[1].position = PositionAtUx
    /\ n_out.recs[1].linkedin_url =
          SearchUrlPrefix \o << "T", "i", "a", "%", "2", "0", "U", "X" >>
    /\ n_out.recs[2].linkedin_url = LinkedinIn \o SlugTia

\* the requests and the sleeps of the get_html call so far
Gets == SelectSeq(h_log, LAMBDA e : e.ev = "get")
Sleeps == SelectSeq(h_log, LAMBDA e : e.ev = "sleep")
RateLimited(e) == e.r.status \in { 403, 429 }

AdapterRank(a) ==
    CASE a = "google_api" -> 1 [] a = "bing" -> 2 [] a = "google" -> 3 [] a = "duckduckgo" -> 4

\* C23: search_person sends its requests in the order keyed API, Bing, Google
\* HTML, DuckDuckGo, the keyed API only when key and engine id are set; no
\* adapter is called after one that yielded results, whose list is what is
\* returned; the call never raises, and it returns [] only when every adapter
\* (every configured one) was called and yielded nothing.
C23_FirstNonEmptyAdapterWins ==
    /\ \A a, b \in 1..Len(w_calls) :
          a < b => /\ AdapterRank(w_calls[a].adapter) < AdapterRank(w_calls[b].adapter)
                   /\ w_calls[a].results = << >>
    /\ \A a \in 1..Len(w_calls) :
          w_calls[a].adapter = "google_api" => (w_cfg.api_key /\ w_cfg.cx)
    /\ w_pc = "done" =>
          /\ w_out.kind = "returned"
          /\ w_out.results # << >> =>
                /\ w_calls # << >>
                /\ w_out.results = w_calls[Len(w_calls)].results
          /\ w_out.results = << >> =>
                /\ \A a \in 1..Len(w_calls) : w_calls[a].results = << >>
                /\ { w_calls[a].adapter : a \in 1..Len(w_calls) } =
                      { "bing", "google", "duckduckgo" } \cup
                      (IF w_cfg.api_key /\ w_cfg.cx THEN { "google_api" } ELSE { })

\* C23 witness: the keyed API is configured and hits an error status, Bing
\* returns a page that cannot be parsed, Google HTML yields two results and
\* DuckDuckGo is not called.
C23_Witness ==
    /\ w_pc = "done"
    /\ Len(w_calls) = 3
    /\ w_calls[1] = AdapterCall("google_api", << >>)
    /\ w_calls[2] = AdapterCall("bing", << >>)
    /\ w_calls[3].adapter = "google"
    /\ Len(w_out.results) = 2
    /\ w_out.results = w_calls[3].results

\* C24: when the cleaning pass fails - the model call raises, its answer is
\* not JSON, is no list, or holds no item that is a dict with a person's name -
\* clean_profiles_with_gemini returns its input: the same records in the same
\* order.
C24_FailedCleaningReturnsInput ==
    (/\ c_pc = "done"
     /\ c_out.kind = "returned"
     /\ \/ c_resp.kind \in { "raise", "nonjson", "scalar" }
        \/ /\ c_resp.kind = "list"
           /\ \A i \in 1..Len(c_resp.items) :
                 ~c_resp.items[i].isdict \/ ~_is_person(c_resp.items[i].rec.name)) =>
        c_out.recs = c_deduped

\* C24 witness: two records went in, the model answered a list of two items
\* of which none is usable, and the two records came back.
C24_Witness ==
    /\ c_pc = "done"
    /\ Len(c_deduped) = 2
    /\ c_resp.kind = "list"
    /\ Len(c_resp.items) = 2
    /\ ~c_resp.items[1].isdict
    /\ c_out.recs = c_deduped

\* C27: the detail pages are fetched one after the other in link order, and
\* every fetch, failed or not, is followed by a polite sleep before the next
\* fetch begins.
C27_SleepAfterEveryFetch ==
    /\ Len(c_log) = 2 * Len(c_results)
    /\ \A k \in 1..Len(c_results) :
          /\ c_log[2 * k - 1] = [ ev |-> "fetch", url |-> c_links[k].url ]
          /\ c_log[2 * k].ev = "sleep"

\* C27 witness: the first of two links failed, and two fetches and two sleeps
\* were made.
C27_Witness ==
    /\ c_pc = "clean"
    /\ Len(c_links) = 2
    /\ c_failed[1]
    /\ Len(c_log) = 4
    /\ c_log[2].ev = "sleep"
    /\ c_log[3].ev = "fetch"

\* C30: before the cleaning pass every record's source_url is the link it was
\* fetched from, the processed links are pairwise distinct, so the identity
\* keys are pairwise distinct and the dedup step returns results as it is.
C30_DedupIsIdentity ==
    /\ \A i, j \in 1..Len(c_links) : i # j => c_links[i].url # c_links[j].url
    /\ \A i \in 1..Len(c_results) :
          /\ c_results[i].source_url = c_links[i].url
          /\ c_results[i].source_url # ""
    /\ \A i, j \in 1..Len(c_results) : i # j => KeyOf(c_results[i]) # KeyOf(c_results[j])
    /\ (c_pc \in { "clean", "done" } /\ c_out.kind # "raised") => c_deduped = c_results

\* C30 witness: the list page linked the same profile twice, once with a
\* fragment; two links were processed, both with fields from the model, and
\* the dedup step kept both records.
C30_Witness ==
    /\ c_pc = "clean"
    /\ \E a, b \in 1..Len(c_page) :
          a # b /\ c_page[a].path = c_page[b].path /\ c_page[b].frag # ""
    /\ Len(c_results) = 2
    /\ c_results[1].email # ""
    /\ c_results[2].email # ""
    /\ Len(c_deduped) = 2

\* no preference field is set: preferences is None, or every value is empty
NoPreferenceSet ==
    \/ ~q_prefs.isdict
    \/ q_prefs = [ NoPrefs EXCEPT !.isdict = TRUE ]

\* C25: the query is never empty, and when no preference field is set it
\* contains the field, or the purpose when the field is empty.
C25_FallsBackToFieldOrPurpose ==
    q_pc = "done" =>
        /\ q_out # << >>
        /\ NoPreferenceSet =>
              IF q_field # << >> THEN Contains(q_out, q_field) ELSE Contains(q_out, q_purpose)

\* C28: a call made with max_questions > 0 and at least max_questions
\* non-blank questions in the history returns done=True without asking the
\* model; and a session that starts from an empty history, in which the client
\* appends every returned question and calls again, is asked at most
\* max_questions questions.
C28_SessionEndsWithinMaxQuestions ==
    /\ (s_pc \in { "client", "done" } /\ s_max > 0 /\ asked_count(s_history) >= s_max) =>
          (s_result.kind = "returned" /\ s_result.done /\ ~s_result.asked_model)
    /\ (s_max > 0 /\ Len(s_history) <= s_asked) => s_asked <= s_max

\* the sessions end_session has popped
EndedSessions == { sid \in SessionIds : k_handed[sid] # { } }

\* C29: under every interleaving, a session start_session has stored is
\* active until an end_session pops it; a session's record goes to at most one
\* caller of end_session and the session is then gone; a record call for a
\* session that never existed or has ended changes nothing: the record is as
\* it was handed over; and no call raises.
C29_CollectorIsThreadSafe ==
    /\ k_live = { sid \in SessionIds : k_records[sid].made } \ EndedSessions
    /\ \A sid \in SessionIds :
          /\ Cardinality(k_handed[sid]) <= 1
          /\ sid \in EndedSessions => k_records[sid] = k_snap[sid]
          /\ (sid >= k_next) => k_records[sid] = NoRecord
    /\ \A t \in Threads : k_thr[t].pc # "raised"
    /\ Cardinality(k_lock) <= 1

\* C29 witness: the two threads ran end_session and record_find_target on the
\* same session; the first got the record, the second came behind, found the
\* session gone and is about to return without a change.
C29_Witness ==
    /\ k_thr["t1"] = [ pc |-> "save", op |-> "end_session", sid |-> 1 ]
    /\ k_thr["t2"] = [ pc |-> "check", op |-> "record_find_target", sid |-> 1 ]
    /\ k_handed[1] = { "t1" }
    /\ k_snap[1].generate_email
    /\ 1 \notin k_live

====
